---------------------------- MODULE Spec2Model ----------------------------
(***************************************************************************)
(* A model of the admission-control core of BackendIPSecurtiy:             *)
(*   - IPSService (src/services/ipsService.js): the block registry over    *)
(*     the Firestore collection ips_blocklist and the in-memory ipStore,   *)
(*     the rate limiter and the suspicious-activity scorer;                *)
(*   - the /api admission middleware of src/server.js (manualIPService).   *)
(*                                                                         *)
(* Every async method of IPSService is a sequence of steps separated by    *)
(* its awaits on Firestore.  One step function, Step, gives the effect of  *)
(* each step on the shared state (the "world") and on the call's locals.   *)
(* The sequential specifications run a call from its start to its return   *)
(* in one action (Run); SpecConc interleaves the steps of several calls.   *)
(***************************************************************************)
EXTENDS Integers, Sequences, FiniteSets, TLC

(***************************************************************************)
(* Bounds of the model.                                                    *)
(***************************************************************************)
MaxTime == 3          \* ticks the clock advances from StartTime
MaxEntries == 2       \* documents ips_blocklist may hold
MaxCount == 4         \* cap of the counter of a rate window
MaxHits == 6          \* cap of the hit counter of the scorer
MaxIndepHits == 2     \* suspicious requests of a client under SpecIndep
MaxMwCount == 12      \* cap of the counter of the middleware's limiter
MaxAlerts == 2        \* alerts createConnectionAlert creates
MaxStored == 3        \* documents ids_alerts may hold of one alert
MaxDocs == 4          \* documents users_ips holds when the migration runs

Durations == {1, 2}   \* block durations a caller passes (positive)
Thresholds == {1, 2}  \* rate-limit thresholds a configuration may set
Windows == {1}        \* rate-limit window sizes a configuration may set

Loopback == {"127.0.0.1", "::1"}
Remote == {"10.0.0.1"}
IPs == Loopback \cup Remote
RateIPs == {"127.0.0.1", "10.0.0.1"}   \* the clients of the limiter and scorer
Uids == {"u1"}                         \* the users users_ips has a document of
Strangers == {"u0"}                    \* a uid users_ips has no document of
Procs == {1, 2}

\* ipConfig.detection.suspiciousThreshold; the inline variants hard-code it.
SuspiciousThreshold == 5

\* this.blockDuration, the default duration of a block, in ticks.
BlockDuration == 2

\* server.js: the limiter's threshold, its window (60000 ms) and the length
\* of the middleware's block (3600000 ms), the last two in ticks.
MwThreshold == 10
MwWindow == 1
MwBlockDuration == 2
MwRateKeep == 3

\* migrateUsers.js: batchSize (500), scaled down.
BatchSize == 2

\* Date.now() when the model starts: later than a window after the epoch,
\* as the lastRequest: 0 of server.js line 25 assumes.
StartTime == MwWindow + 1

VARIABLES
    now,            \* Date.now(), in ticks
    blocklist,      \* collection ips_blocklist: sequence of documents
    users,          \* collection users_ips: uid -> document
    activityLog,    \* collection ips_suspicious_activity: number of documents
    unblocked,      \* field unblocked of the ips_blocklist documents: index ->
                    \* the server timestamps written to it, in order (partial)
    blockedIPs,     \* ipStore of IPSService: ip -> expiresAt      (partial)
    rateLimits,     \* ipStore of IPSService: ip -> {count, firstRequest} (partial)
    suspiciousIPs,  \* ipStore of IPSService: ip -> hit count      (partial)
    blockedUsers,   \* ipStore of IPSService: uid -> blockUntil    (partial)
    threshold,      \* ipConfig.time.rateLimit.threshold
    timeWindow,     \* ipConfig.time.rateLimit.window
    proc,           \* the calls in flight: process -> locals of its call
    last,           \* the call that returned last
    mwRateLimits,   \* ipStore.rateLimits of server.js: ip -> {count, lastRequest}
    mwBlockedIPs,   \* ipStore.blockedIPs of server.js: ip -> blockUntil
    mwAdmitted,     \* recorded for the properties only: ip -> how many
                    \* times manualIPService.checkRateLimit(ip) returned
                    \* true now, a tick ago, ..., MwWindow ticks ago (partial)
    alerts,         \* IDSService.alerts: sequence of alerts
    alertsFile,     \* the file at alertsPath: the alerts it lists
    idsAlerts,      \* collection ids_alerts: alert id -> the number of
                    \* documents added for it (partial)
    mig             \* the run of migrateUsers.js (fields below)

storeVars == <<blocklist, users, activityLog, unblocked>>
memVars == <<blockedIPs, rateLimits, suspiciousIPs, blockedUsers>>
cfgVars == <<threshold, timeWindow>>
histVars == <<last>>
mwVars == <<mwRateLimits, mwBlockedIPs, mwAdmitted>>
idsVars == <<alerts, alertsFile, idsAlerts>>
migVars == <<mig>>
vars == <<now, storeVars, memVars, cfgVars, proc, histVars, mwVars, idsVars,
          migVars>>

(***************************************************************************)
(* Partial maps (JavaScript objects and Maps keyed by ip).                 *)
(***************************************************************************)
Empty == << >>
Put(f, k, v) == [x \in (DOMAIN f) \cup {k} |-> IF x = k THEN v ELSE f[x]]
Del(f, k) == [x \in (DOMAIN f) \ {k} |-> f[x]]

Min(S) == CHOOSE x \in S : \A y \in S : x <= y

IsLoopback(ip) == ip = "::1" \/ ip = "127.0.0.1"

(***************************************************************************)
(* The Firestore queries of IPSService on ips_blocklist.  A query result   *)
(* is the set of positions of the matching documents.                      *)
(***************************************************************************)
\* .where('ip','==',ip).where('active','==',true).where('expiresAt','>',t)
\* The query without the condition on expiresAt; C20 tells it from the
\* code.
QueryBlockedAnyExpiry(bl, ip, t) ==
    {i \in DOMAIN bl : bl[i].ip = ip /\ bl[i].active}

QueryBlocked(bl, ip, t) ==
    {i \in DOMAIN bl : bl[i].ip = ip /\ bl[i].active /\ bl[i].expiresAt > t}

\* .where('ip','==',ip).where('active','==',true)
QueryActive(bl, ip) ==
    {i \in DOMAIN bl : bl[i].ip = ip /\ bl[i].active}

\* .where('active','==',true).where('expiresAt','<=',t)
\* The query with expiresAt < now in place of <=; C15 tells it from the
\* code.
QueryExpiredStrict(bl, t) ==
    {i \in DOMAIN bl : bl[i].active /\ bl[i].expiresAt < t}

QueryExpired(bl, t) ==
    {i \in DOMAIN bl : bl[i].active /\ bl[i].expiresAt <= t}

\* users_ips .where('blocked','==',true).where('blockUntil','<=',t)
QueryExpiredUsers(us, t) ==
    {u \in DOMAIN us : us[u].blocked /\ us[u].blockUntil # {}
                       /\ \A e \in us[u].blockUntil : e <= t}

\* batch.update(doc.ref, {active: false, unblocked: ...}) for each doc of S
\* ... unblocked: admin.firestore.FieldValue.serverTimestamp() of the same
\* update: the documents of S get the server time t in their field.
StampUnblocked(ub, S, t) ==
    [i \in (DOMAIN ub) \cup S |->
        IF i \in S
        THEN (IF i \in DOMAIN ub THEN Append(ub[i], t) ELSE <<t>>)
        ELSE ub[i]]

\* The batch holding the update of the first document of the answer only;
\* C31 tells it from the code.
DeactivateFirst(bl, S) ==
    [i \in DOMAIN bl |->
        IF i \in S /\ (\A j \in S : i <= j)
        THEN [bl[i] EXCEPT !.active = FALSE] ELSE bl[i]]

Deactivate(bl, S) ==
    [i \in DOMAIN bl |-> IF i \in S THEN [bl[i] EXCEPT !.active = FALSE] ELSE bl[i]]

\* batch.update(doc.ref, {blocked: false, blockReason: null, blockUntil: null})
ClearUsers(us, S) ==
    [u \in DOMAIN us |->
        IF u \in S THEN [us[u] EXCEPT !.blocked = FALSE, !.blockReason = "-",
                                      !.blockUntil = {}]
        ELSE us[u]]

\* An add that takes up again an inactive document of the ip, where the
\* code always adds a new one; C22 tells it from the code.
AddEntryReuses(bl, ip, reason, expiresAt) ==
    LET old == {i \in DOMAIN bl : bl[i].ip = ip /\ ~bl[i].active}
    IN  IF old # {}
        THEN LET i == CHOOSE x \in old : TRUE
             IN  [bl EXCEPT ![i] = [@ EXCEPT !.active = TRUE,
                                             !.reason = reason,
                                             !.expiresAt = expiresAt]]
        ELSE Append(bl, [ip |-> ip, reason |-> reason,
                         expiresAt |-> expiresAt, active |-> TRUE])

\* The add with active: false for active: true; C3 tells it from the code.
AddEntryInactive(bl, ip, reason, expiresAt) ==
    Append(bl, [ip |-> ip, reason |-> reason, expiresAt |-> expiresAt,
                active |-> FALSE])

\* db.collection('ips_blocklist').add({ip, reason, expiresAt, active: true})
AddEntry(bl, ip, reason, expiresAt) ==
    Append(bl, [ip |-> ip, reason |-> reason, expiresAt |-> expiresAt,
                active |-> TRUE])

\* db.collection('users_ips').doc(uid).get(): the document, when it exists
UserDoc(us, uid) == IF uid \in DOMAIN us THEN {us[uid]} ELSE {}

\* db.collection('users_ips').doc(uid).update({blocked: true, blockReason,
\* blockUntil})
BlockUserDoc(us, uid, reason, blockUntil) ==
    [us EXCEPT ![uid] = [@ EXCEPT !.blocked = TRUE, !.blockReason = reason,
                                  !.blockUntil = {blockUntil}]]

\* `User ${uid} blocked: ${reason}`, the reason blockUser blocks the ip with
CascadeReason(uid, reason) == "User " \o uid \o " blocked: " \o reason

\* `User ${uid} blocked`, the reason unblockUser looks for
CascadeQueryReason(uid) == "User " \o uid \o " blocked"

\* ips_blocklist .where('ip','==',ip).where('reason','==',reason)
\*               .where('active','==',true)
QueryCascade(bl, ip, reason) ==
    {i \in DOMAIN bl : bl[i].ip = ip /\ bl[i].reason = reason /\ bl[i].active}

\* snapshot.docs[0].data().expiresAt of a query ordered by its inequality field
FirstExpiresAt(bl, S) == Min({bl[i].expiresAt : i \in S})

(***************************************************************************)
(* ipStore, the in-memory store of IPSService.  ipsService.js reaches it   *)
(* through the methods named below; the variant of the service in          *)
(* src/unnamed/part_008 holds the same store inline, and the definitions   *)
(* follow that code.                                                       *)
(***************************************************************************)
\* ipStore.isIPBlocked(ip): an entry is present and has not expired
StoreIsIPBlocked(c, ip, t) == ip \in DOMAIN c /\ c[ip] > t

\* ipStore.setBlockedIP(ip, expiresAt)
SetBlockedIP(c, ip, expiresAt) == Put(c, ip, expiresAt)

\* ipStore.unblockIP(ip)
StoreUnblockIP(c, ip) == Del(c, ip)

\* ipStore.cleanupExpiredMemoryStores(): the entries it keeps
CleanupMemory(c, t) == [x \in {y \in DOMAIN c : c[y] > t} |-> c[x]]

\* ... and the number of entries it removed
CleanupMemoryCount(c, t) == Cardinality({y \in DOMAIN c : c[y] <= t})

\* ipStore.isUserBlocked(uid), setBlockedUser(uid, blockUntil), unblockUser(uid)
StoreIsUserBlocked(c, uid, t) == uid \in DOMAIN c /\ c[uid] > t

SetBlockedUser(c, uid, blockUntil) == Put(c, uid, blockUntil)

StoreUnblockUser(c, uid) == Del(c, uid)

\* ipStore.getRateLimitData(ip) || { count: 0, firstRequest: now }
GetRateLimitData(r, ip, t) ==
    IF ip \in DOMAIN r THEN r[ip] ELSE [count |-> 0, firstRequest |-> t]

\* ipStore.updateRateLimit(ip, count, firstRequest)
UpdateRateLimit(r, ip, count, firstRequest) ==
    Put(r, ip, [count |-> count, firstRequest |-> firstRequest])

\* ipStore.recordSuspiciousActivity(ip): the new hit count
SuspiciousCount(s, ip) == (IF ip \in DOMAIN s THEN s[ip] ELSE 0) + 1

\* A store with one hit count shared by all ips; C35 tells it from the
\* code.
RecordSuspiciousActivityShared(s, ip) ==
    [x \in (DOMAIN s) \cup {ip} |-> SuspiciousCount(s, ip)]

RecordSuspiciousActivity(s, ip) == Put(s, ip, SuspiciousCount(s, ip))

(***************************************************************************)
(* The world a call acts on, and the locals of a call.                     *)
(*   op      the method called: "block", "unblock", "isBlocked", "cleanup",*)
(*           "rate" (checkRateLimit) or "analyze" (analyzeTraffic)         *)
(*   pc      "start", the await the call is suspended at, or "done"        *)
(*   inBlock the call is inside blockIP                                    *)
(*   t       the new Date() a query was built with                         *)
(*   snap    the documents a query returned                                *)
(*   qexp    expiresAt of the first document of an isIPBlocked query       *)
(*   qerr    the store operation awaited has failed                        *)
(*   failAt  which store operation of this call fails (0: none)            *)
(*   ret     "true", "false", or "throw" when the call rejects             *)
(*   uid     the user a user method is called for                          *)
(*   udoc    the users_ips document a get returned ({}: none)              *)
(*   inIsUser, inUnblockUser  the call is inside isUserBlocked, inside     *)
(*           unblockUser                                                   *)
(* and, recorded for the properties only:                                  *)
(*   failed  a store operation of this call has failed                     *)
(*   path    how blockIP ended: "refused", "already", "blocked", "error";  *)
(*           how a call of isIPBlocked got its answer: "cache", "store"    *)
(*   asked   the reason the limiter or the scorer called blockIP with      *)
(*   reset   checkRateLimit started a new window                           *)
(*   pre     the subject was blocked when the call started                 *)
(*   n0      the documents ips_blocklist held for the ip at that time      *)
(*   upath   how blockUser ended: "already", "blocked", "error"            *)
(*   batch   the updates in the batch unblockIP has committed              *)
(***************************************************************************)
World == [blocklist |-> blocklist, users |-> users, activityLog |-> activityLog,
          unblocked |-> unblocked,
          blockedIPs |-> blockedIPs, rateLimits |-> rateLimits,
          suspiciousIPs |-> suspiciousIPs, blockedUsers |-> blockedUsers]

EntriesOf(bl, ip) == {i \in DOMAIN bl : bl[i].ip = ip}

\* An unexpired block of ip is on record, in ips_blocklist or in the ipStore.
BlockedAt(w, ip, t) ==
    QueryBlocked(w.blocklist, ip, t) # {} \/ StoreIsIPBlocked(w.blockedIPs, ip, t)

NoCall == [op |-> "none", ip |-> "-", pc |-> "done", inBlock |-> FALSE,
           reason |-> "-", dur |-> 0, suspicious |-> FALSE,
           t |-> 0, snap |-> {}, qexp |-> 0, qerr |-> FALSE, expiresAt |-> 0,
           cleaned |-> 0, failAt |-> 0, ret |-> "-",
           failed |-> FALSE, path |-> "-", asked |-> "-", reset |-> FALSE,
           pre |-> FALSE, n0 |-> 0,
           uid |-> "-", udoc |-> {}, inIsUser |-> FALSE, inUnblockUser |-> FALSE,
           upath |-> "-", batch |-> 0]

NewCall(w, t, op, ip, reason, dur, suspicious, failAt) ==
    [NoCall EXCEPT !.op = op, !.ip = ip, !.pc = "start", !.reason = reason,
                   !.dur = dur, !.suspicious = suspicious, !.failAt = failAt,
                   !.pre = ip \in IPs /\ BlockedAt(w, ip, t),
                   !.n0 = Cardinality(EntriesOf(w.blocklist, ip))]

\* The store operation the call issues now fails.
Fails(l) == l.failAt = 1

\* The locals once that operation has been answered.
Issued(l) == [l EXCEPT !.failAt = IF @ > 0 THEN @ - 1 ELSE 0,
                       !.failed = (@ \/ l.failAt = 1),
                       !.qerr = (l.failAt = 1)]

\* isIPBlocked called for itself notes where its answer came from.
Via(l, p) == IF l.op = "isBlocked" THEN [l EXCEPT !.path = p] ELSE l

\* The result of a piece of a method: it is suspended at an await (k = "await"),
\* or it has returned v to its caller (k = "ret").
Await(w, l, pc) == [k |-> "await", v |-> "-", w |-> w, l |-> [l EXCEPT !.pc = pc]]
Ret(w, l, v) == [k |-> "ret", v |-> v, w |-> w, l |-> l]

\* The method called has returned (or thrown) v.
Return(w, l, v) ==
    [k |-> "ret", v |-> v, w |-> w,
     l |-> [l EXCEPT !.pc = "done", !.ret = v, !.inBlock = FALSE, !.t = 0,
                     !.snap = {}, !.qexp = 0, !.qerr = FALSE, !.failAt = 0]]

(***************************************************************************)
(* IPSService.isIPBlocked (ipsService.js 52-79).                           *)
(***************************************************************************)
\* isIPBlocked that answers from the ipStore whenever it holds the ip,
\* false for an entry whose expiry has passed; C29 tells it from the code.
IsIPBlockedStartTrustsCache(w, l, t) ==
    IF IsLoopback(l.ip) THEN Ret(w, l, "false")
    ELSE IF l.ip \in DOMAIN w.blockedIPs
    THEN Ret(w, Via(l, "cache"),
             IF w.blockedIPs[l.ip] > t THEN "true" ELSE "false")
    ELSE Await(w, [l EXCEPT !.t = t], "isb_get")

\* Lines 53-64: the loopback test, the ipStore test, the query is issued.
IsIPBlockedStart(w, l, t) ==
    IF IsLoopback(l.ip) THEN Ret(w, l, "false")
    ELSE IF StoreIsIPBlocked(w.blockedIPs, l.ip, t)
    THEN Ret(w, Via(l, "cache"), "true")
    ELSE Await(w, [l EXCEPT !.t = t], "isb_get")

\* Firestore answers the query, or fails.
IsIPBlockedGet(w, l) ==
    LET S == QueryBlocked(w.blocklist, l.ip, l.t)
    IN  Await(w, [Issued(l) EXCEPT
                    !.snap = IF Fails(l) THEN {} ELSE S,
                    !.qexp = IF Fails(l) \/ S = {} THEN 0
                             ELSE FirstExpiresAt(w.blocklist, S)],
              "isb_got")

\* Lines 66-78: the ipStore is updated on a hit; a failure answers false.
IsIPBlockedGot(w, l) ==
    LET l1 == Via([l EXCEPT !.snap = {}, !.qexp = 0, !.qerr = FALSE, !.t = 0],
                  "store")
    IN  IF l.qerr THEN Ret(w, l1, "false")
        ELSE IF l.snap # {}
             THEN Ret([w EXCEPT !.blockedIPs = SetBlockedIP(@, l.ip, l.qexp)],
                      l1, "true")
             ELSE Ret(w, l1, "false")

(***************************************************************************)
(* IPSService.blockIP (ipsService.js 119-162).  The blacklist file it      *)
(* appends to is written inside a try/catch of its own and is not read by  *)
(* any decision; it is left out.                                           *)
(***************************************************************************)
BlockIPReturn(w, l, v, path) ==
    Ret(w, [l EXCEPT !.inBlock = FALSE, !.path = path], v)

\* blockIP without the return at line 128; C7 tells it from the code.
BlockIPCheckedAlways(w, l, t, blocked) ==
    Await(w, [l EXCEPT !.expiresAt = t + l.dur], "add_put")

\* Lines 126-142, isIPBlocked having answered: the document is built and
\* its add is issued.
BlockIPChecked(w, l, t, blocked) ==
    IF blocked = "true" THEN BlockIPReturn(w, l, "false", "already")
    ELSE Await(w, [l EXCEPT !.expiresAt = t + l.dur], "add_put")

\* Lines 120-126.
BlockIPStart(w, l, t) ==
    IF IsLoopback(l.ip) THEN BlockIPReturn(w, l, "false", "refused")
    ELSE LET r == IsIPBlockedStart(w, [l EXCEPT !.inBlock = TRUE], t)
         IN  IF r.k = "ret" THEN BlockIPChecked(r.w, r.l, t, r.v) ELSE r

\* Firestore adds the document, or fails.
BlockIPPut(w, l) ==
    IF Fails(l) THEN Await(w, Issued(l), "add_done")
    ELSE Await([w EXCEPT !.blocklist = AddEntry(@, l.ip, l.reason, l.expiresAt)],
               Issued(l), "add_done")

\* blockIP that goes on after a failed add as after a successful one; C18
\* tells it from the code.
BlockIPDoneIgnoresError(w, l) ==
    BlockIPReturn([w EXCEPT !.blockedIPs = SetBlockedIP(@, l.ip, l.expiresAt)],
                  [l EXCEPT !.qerr = FALSE], "true", "blocked")

\* Lines 144-161: the ipStore is updated; a failed add is thrown on.
BlockIPDone(w, l) ==
    IF l.qerr THEN BlockIPReturn(w, [l EXCEPT !.qerr = FALSE], "throw", "error")
    ELSE BlockIPReturn([w EXCEPT !.blockedIPs = SetBlockedIP(@, l.ip, l.expiresAt)],
                       l, "true", "blocked")

(***************************************************************************)
(* IPSService.unblockIP (ipsService.js 210-244).                           *)
(***************************************************************************)
\* Lines 212-215: the query is issued.
UnblockIPStart(w, l) == Await(w, l, "unb_get")

\* Firestore answers the query; lines 217-225 put an update of every
\* document of the answer in a batch and commit it.
UnblockIPGet(w, l) ==
    IF Fails(l) THEN Return(w, Issued(l), "throw")
    ELSE Await(w, [Issued(l) EXCEPT !.snap = QueryActive(w.blocklist, l.ip)],
               "unb_put")

\* Firestore commits the batch, or fails.
UnblockIPPut(w, l, t) ==
    IF Fails(l) THEN Await(w, Issued(l), "unb_done")
    ELSE Await([w EXCEPT !.blocklist = Deactivate(@, l.snap),
                         !.unblocked = StampUnblocked(@, l.snap, t)],
               [Issued(l) EXCEPT !.batch = Cardinality(l.snap)], "unb_done")

\* unblockIP that also unblocks the users whose document has the ip; C14
\* tells it from the code.
UnblockIPDoneCascades(w, l) ==
    IF l.qerr THEN Return(w, l, "throw")
    ELSE LET hit == {u \in DOMAIN w.users : w.users[u].ip = l.ip}
         IN  Return([w EXCEPT
                       !.blockedIPs = StoreUnblockIP(@, l.ip),
                       !.users = [u \in DOMAIN @ |->
                                    IF u \in hit
                                    THEN [@[u] EXCEPT !.blocked = FALSE,
                                                      !.blockReason = "-",
                                                      !.blockUntil = {}]
                                    ELSE @[u]],
                       !.blockedUsers = [u \in DOMAIN @ \ hit |-> @[u]]],
                    l, "true")

\* unblockIP without line 228, the ipStore keeping its entry; C4 tells it
\* from the code.
UnblockIPDoneKeepsCache(w, l) ==
    IF l.qerr THEN Return(w, l, "throw") ELSE Return(w, l, "true")

\* Lines 227-243.
UnblockIPDone(w, l) ==
    IF l.qerr THEN Return(w, l, "throw")
    ELSE Return([w EXCEPT !.blockedIPs = StoreUnblockIP(@, l.ip)], l, "true")

(***************************************************************************)
(* IPSService.cleanupExpiredBlocks (ipsService.js 442-516).                *)
(***************************************************************************)
\* Lines 444-451: now is taken, the query for expired IP blocks is issued.
CleanupStart(w, l, t) == Await(w, [l EXCEPT !.t = t], "cl_ipget")

\* Firestore answers; lines 453-463 count the documents and commit the
\* batch that deactivates them, or go on to the users when there are none.
CleanupIPGet(w, l) ==
    LET S == QueryExpired(w.blocklist, l.t)
    IN  IF Fails(l) THEN Return(w, Issued(l), "throw")
        ELSE IF S = {} THEN Await(w, Issued(l), "cl_uget")
        ELSE Await(w, [Issued(l) EXCEPT !.snap = S,
                                        !.cleaned = @ + Cardinality(S)],
                   "cl_ipput")

\* Firestore commits the IP batch, or fails; lines 485-489 issue the query
\* for expired user blocks.
CleanupIPPut(w, l, t) ==
    IF Fails(l) THEN Return(w, Issued(l), "throw")
    ELSE Await([w EXCEPT !.blocklist = Deactivate(@, l.snap),
                         !.unblocked = StampUnblocked(@, l.snap, t)],
               [Issued(l) EXCEPT !.snap = {}], "cl_uget")

\* Firestore answers; lines 491-503 count the users and commit their batch.
CleanupUserGet(w, l) ==
    LET U == QueryExpiredUsers(w.users, l.t)
    IN  IF Fails(l) THEN Return(w, Issued(l), "throw")
        ELSE IF U = {} THEN Await(w, Issued(l), "cl_mem")
        ELSE Await(w, [Issued(l) EXCEPT !.snap = U,
                                        !.cleaned = @ + Cardinality(U)],
                   "cl_uput")

\* Firestore commits the user batch, or fails.
CleanupUserPut(w, l) ==
    IF Fails(l) THEN Return(w, Issued(l), "throw")
    ELSE Await([w EXCEPT !.users = ClearUsers(@, l.snap)],
               [Issued(l) EXCEPT !.snap = {}], "cl_mem")

\* A sweep of the ipStore that counts the expired entries and leaves them
\* in place; C25 tells it from the code.
CleanupMemKeeps(w, l, t) ==
    Return(w,
           [l EXCEPT !.cleaned = @ + CleanupMemoryCount(w.blockedIPs, t)
                                   + CleanupMemoryCount(w.blockedUsers, t)],
           "true")

\* Lines 506-511: the ipStore is swept and the count returned.
CleanupMem(w, l, t) ==
    Return([w EXCEPT !.blockedIPs = CleanupMemory(@, t),
                     !.blockedUsers = CleanupMemory(@, t)],
           [l EXCEPT !.cleaned = @ + CleanupMemoryCount(w.blockedIPs, t)
                                   + CleanupMemoryCount(w.blockedUsers, t)],
           "true")

(***************************************************************************)
(* IPSService.checkRateLimit (ipsService.js 339-359).                      *)
(***************************************************************************)
\* blockIP has returned v to checkRateLimit or to analyzeTraffic: both
\* answer false, and reject when blockIP has thrown.  blockUser
\* (lines 191-200) answers true, and rejects when blockIP has thrown.
AfterBlockIP(r) ==
    IF r.k = "await" THEN r
    ELSE IF r.l.op = "block" THEN Return(r.w, r.l, r.v)
    ELSE IF r.l.op = "blockUser"
    THEN Return(r.w, [r.l EXCEPT !.upath = IF r.v = "throw" THEN "error"
                                           ELSE "blocked"],
                IF r.v = "throw" THEN "throw" ELSE "true")
    ELSE Return(r.w, r.l, IF r.v = "throw" THEN "throw" ELSE "false")

\* checkRateLimit with >= for > at line 353; C8 tells it from the code.
CheckRateLimitAtThreshold(w, l, t, thr, win) ==
    LET ipData == GetRateLimitData(w.rateLimits, l.ip, t)
        outside == t - ipData.firstRequest > win
        count == (IF outside THEN 0 ELSE ipData.count) + 1
        firstRequest == IF outside THEN t ELSE ipData.firstRequest
        w1 == [w EXCEPT !.rateLimits = UpdateRateLimit(@, l.ip, count, firstRequest)]
        l1 == [l EXCEPT !.reset = outside]
    IN  IF count >= thr
        THEN AfterBlockIP(BlockIPStart(w1, [l1 EXCEPT
                     !.reason = "Rate limit exceeded",
                     !.asked = "Rate limit exceeded",
                     !.dur = BlockDuration], t))
        ELSE Return(w1, l1, "true")

\* checkRateLimit without line 345, the count kept when the window is
\* renewed; C9 tells it from the code.
CheckRateLimitKeepsCount(w, l, t, thr, win) ==
    LET ipData == GetRateLimitData(w.rateLimits, l.ip, t)
        outside == t - ipData.firstRequest > win
        count == ipData.count + 1
        firstRequest == IF outside THEN t ELSE ipData.firstRequest
        w1 == [w EXCEPT !.rateLimits = UpdateRateLimit(@, l.ip, count, firstRequest)]
        l1 == [l EXCEPT !.reset = outside]
    IN  IF count > thr
        THEN AfterBlockIP(BlockIPStart(w1, [l1 EXCEPT
                     !.reason = "Rate limit exceeded",
                     !.asked = "Rate limit exceeded",
                     !.dur = BlockDuration], t))
        ELSE Return(w1, l1, "true")

\* IPSService.checkRateLimit (ipsService.js 339-359).
CheckRateLimit(w, l, t, thr, win) ==
    LET ipData == GetRateLimitData(w.rateLimits, l.ip, t)
        outside == t - ipData.firstRequest > win
        count == (IF outside THEN 0 ELSE ipData.count) + 1
        firstRequest == IF outside THEN t ELSE ipData.firstRequest
        w1 == [w EXCEPT !.rateLimits = UpdateRateLimit(@, l.ip, count, firstRequest)]
        l1 == [l EXCEPT !.reset = outside]
    IN  IF count > thr
        THEN AfterBlockIP(BlockIPStart(w1, [l1 EXCEPT
                     !.reason = "Rate limit exceeded",
                     !.asked = "Rate limit exceeded",
                     !.dur = BlockDuration], t))
        ELSE Return(w1, l1, "true")

(***************************************************************************)
(* IPSService.analyzeTraffic (ipsService.js 367-396).  l.suspicious is     *)
(* detectSuspiciousActivity(requestData).                                  *)
(***************************************************************************)
\* analyzeTraffic with > for >= at line 379; C10 tells it from the code.
AnalyzeCheckedAbove(w, l, t, blocked) ==
    IF blocked = "true" THEN Return(w, l, "false")
    ELSE IF ~l.suspicious THEN Return(w, l, "true")
    ELSE LET currentCount == SuspiciousCount(w.suspiciousIPs, l.ip)
             w1 == [w EXCEPT !.suspiciousIPs = RecordSuspiciousActivity(@, l.ip)]
         IN  IF currentCount > SuspiciousThreshold
             THEN AfterBlockIP(BlockIPStart(w1, [l EXCEPT
                     !.reason = "Multiple suspicious activities detected",
                     !.asked = "Multiple suspicious activities detected",
                     !.dur = BlockDuration], t))
             ELSE Await(w1, l, "aud_put")

\* analyzeTraffic that scores a suspicious request before it looks at the
\* answer of isIPBlocked; C32 tells it from the code.
AnalyzeCheckedScoresBlocked(w, l, t, blocked) ==
    IF ~l.suspicious
    THEN Return(w, l, IF blocked = "true" THEN "false" ELSE "true")
    ELSE LET currentCount == SuspiciousCount(w.suspiciousIPs, l.ip)
             w1 == [w EXCEPT !.suspiciousIPs = RecordSuspiciousActivity(@, l.ip)]
         IN  IF blocked = "true" THEN Return(w1, l, "false")
             ELSE IF currentCount >= SuspiciousThreshold
             THEN AfterBlockIP(BlockIPStart(w1, [l EXCEPT
                     !.reason = "Multiple suspicious activities detected",
                     !.asked = "Multiple suspicious activities detected",
                     !.dur = BlockDuration], t))
             ELSE Await(w1, l, "aud_put")

\* Lines 369-388, isIPBlocked having answered.
AnalyzeChecked(w, l, t, blocked) ==
    IF blocked = "true" THEN Return(w, l, "false")
    ELSE IF ~l.suspicious THEN Return(w, l, "true")
    ELSE LET currentCount == SuspiciousCount(w.suspiciousIPs, l.ip)
             w1 == [w EXCEPT !.suspiciousIPs = RecordSuspiciousActivity(@, l.ip)]
         IN  IF currentCount >= SuspiciousThreshold
             THEN AfterBlockIP(BlockIPStart(w1, [l EXCEPT
                     !.reason = "Multiple suspicious activities detected",
                     !.asked = "Multiple suspicious activities detected",
                     !.dur = BlockDuration], t))
             ELSE Await(w1, l, "aud_put")

AnalyzeStart(w, l, t) ==
    LET r == IsIPBlockedStart(w, l, t)
    IN  IF r.k = "ret" THEN AnalyzeChecked(r.w, r.l, t, r.v) ELSE r

\* analyzeTraffic without the add of lines 384-389; C33 tells it from the
\* code.
AuditPutSkips(w, l) ==
    IF Fails(l) THEN Return(w, Issued(l), "throw")
    ELSE Return(w, Issued(l), "false")

\* Firestore adds the audit document, or fails; line 391 returns !suspicious.
AuditPut(w, l) ==
    IF Fails(l) THEN Return(w, Issued(l), "throw")
    ELSE Return([w EXCEPT !.activityLog = @ + 1], Issued(l), "false")

(***************************************************************************)
(* IPSService.isUserBlocked (ipsService.js 86-110), unblockUser (251-286)  *)
(* and blockUser (171-203).  isUserBlocked calls unblockUser when it finds *)
(* a block that has expired; unblockUser calls unblockIP; blockUser calls  *)
(* isUserBlocked and blockIP.                                              *)
(***************************************************************************)
\* The user is on record as blocked at t, in users_ips or in the ipStore.
UserBlockedAt(w, uid, t) ==
    \/ StoreIsUserBlocked(w.blockedUsers, uid, t)
    \/ /\ uid \in DOMAIN w.users
       /\ w.users[uid].blocked
       /\ \E e \in w.users[uid].blockUntil : e > t

NewUserCall(w, t, op, uid, reason, dur, failAt) ==
    [NewCall(w, t, op, "-", reason, dur, FALSE, failAt) EXCEPT
        !.uid = uid, !.pre = UserBlockedAt(w, uid, t)]

\* unblockUser, lines 253-254: the get is issued.
UnblockUserStart(w, l) ==
    Await(w, [l EXCEPT !.inUnblockUser = TRUE], "unu_get")

\* Firestore answers the get; lines 254-261 issue the update.
UnblockUserGet(w, l) ==
    IF Fails(l) THEN Ret(w, Issued(l), "throw")
    ELSE IF UserDoc(w.users, l.uid) = {} THEN Ret(w, Issued(l), "false")
    ELSE Await(w, [Issued(l) EXCEPT !.udoc = UserDoc(w.users, l.uid)],
               "unu_put")

\* Firestore applies the update, or fails.
UnblockUserPut(w, l) ==
    IF Fails(l) \/ l.uid \notin DOMAIN w.users
    THEN Await(w, [Issued(l) EXCEPT !.qerr = TRUE], "unu_done")
    ELSE Await([w EXCEPT !.users = ClearUsers(@, {l.uid})], Issued(l),
               "unu_done")

\* Lines 263-273: the ipStore is updated and the query for the ip's blocks
\* made for this user is issued.
UnblockUserDone(w, l) ==
    LET userData == CHOOSE d \in l.udoc : TRUE
        w1 == [w EXCEPT !.blockedUsers = StoreUnblockUser(@, l.uid)]
    IN  IF l.qerr THEN Ret(w, [l EXCEPT !.qerr = FALSE], "throw")
        ELSE IF userData.ip # "-" THEN Await(w1, l, "unu_query")
        ELSE Ret(w1, l, "true")

\* Firestore answers the query; lines 275-277 call unblockIP when it is not
\* empty.
UnblockUserQuery(w, l) ==
    LET userData == CHOOSE d \in l.udoc : TRUE
        ipBlocks == QueryCascade(w.blocklist, userData.ip,
                                 CascadeQueryReason(l.uid))
    IN  IF Fails(l) THEN Ret(w, Issued(l), "throw")
        ELSE IF ipBlocks # {}
        THEN UnblockIPStart(w, [Issued(l) EXCEPT !.ip = userData.ip])
        ELSE Ret(w, Issued(l), "true")

\* isUserBlocked, lines 88-90: the ipStore test, the get is issued.
IsUserBlockedStart(w, l, t) ==
    IF StoreIsUserBlocked(w.blockedUsers, l.uid, t) THEN Ret(w, l, "true")
    ELSE Await(w, l, "isu_get")

\* Firestore answers the get, or fails.
IsUserBlockedGet(w, l) ==
    Await(w, [Issued(l) EXCEPT
                !.udoc = IF Fails(l) THEN {} ELSE UserDoc(w.users, l.uid)],
          "isu_got")

\* isUserBlocked without the catch of lines 106-109: a failed get is
\* thrown on; C17 tells it from the code.
IsUserBlockedGotThrows(w, l, t) ==
    LET l1 == [l EXCEPT !.udoc = {}, !.qerr = FALSE]
    IN  IF l.qerr THEN Ret(w, l1, "throw")
        ELSE IF l.udoc = {} THEN Ret(w, l1, "false")
        ELSE LET userData == CHOOSE d \in l.udoc : TRUE
             IN  IF userData.blocked /\ userData.blockUntil # {}
                 THEN LET blockUntil == CHOOSE e \in userData.blockUntil : TRUE
                      IN  IF blockUntil > t
                          THEN Ret([w EXCEPT !.blockedUsers =
                                       SetBlockedUser(@, l.uid, blockUntil)],
                                   l1, "true")
                          ELSE UnblockUserStart(w, [l1 EXCEPT !.inIsUser = TRUE])
                 ELSE Ret(w, l1, "false")

\* Lines 91-108: a block in force is put in the ipStore; for a block that
\* has expired unblockUser is called; a failure answers false.
IsUserBlockedGot(w, l, t) ==
    LET l1 == [l EXCEPT !.udoc = {}, !.qerr = FALSE]
    IN  IF l.qerr \/ l.udoc = {} THEN Ret(w, l1, "false")
        ELSE LET userData == CHOOSE d \in l.udoc : TRUE
             IN  IF userData.blocked /\ userData.blockUntil # {}
                 THEN LET blockUntil == CHOOSE e \in userData.blockUntil : TRUE
                      IN  IF blockUntil > t
                          THEN Ret([w EXCEPT !.blockedUsers =
                                       SetBlockedUser(@, l.uid, blockUntil)],
                                   l1, "true")
                          ELSE UnblockUserStart(w, [l1 EXCEPT !.inIsUser = TRUE])
                 ELSE Ret(w, l1, "false")

\* blockUser, lines 173-186, isUserBlocked having answered: the update is
\* issued.
BlockUserChecked(w, l, t, blocked) ==
    IF blocked = "true" THEN Ret(w, [l EXCEPT !.upath = "already"], "false")
    ELSE Await(w, [l EXCEPT !.expiresAt = t + l.dur], "bu_put")

\* An update that creates the document when there is none, as a set with
\* merge would; C37 tells it from the code.
BlockUserPutCreates(w, l) ==
    IF Fails(l) THEN Await(w, [Issued(l) EXCEPT !.qerr = TRUE], "bu_done")
    ELSE Await([w EXCEPT !.users =
                   Put(@, l.uid, [ip |-> "-", blocked |-> TRUE,
                                  blockReason |-> l.reason,
                                  blockUntil |-> {l.expiresAt}])],
               Issued(l), "bu_done")

\* Firestore applies the update, or fails (it fails when the document does
\* not exist).
BlockUserPut(w, l) ==
    IF Fails(l) \/ l.uid \notin DOMAIN w.users
    THEN Await(w, [Issued(l) EXCEPT !.qerr = TRUE], "bu_done")
    ELSE Await([w EXCEPT !.users = BlockUserDoc(@, l.uid, l.reason, l.expiresAt)],
               Issued(l), "bu_done")

\* Lines 188-192: the ipStore is updated and the get is issued.
BlockUserDone(w, l) ==
    IF l.qerr THEN Ret(w, [l EXCEPT !.qerr = FALSE, !.upath = "error"], "throw")
    ELSE Await([w EXCEPT !.blockedUsers = SetBlockedUser(@, l.uid, l.expiresAt)],
               l, "bu_get")

\* blockUser without lines 193-195, the ip of the user left alone; C12
\* tells it from the code.
BlockUserGetNoCascade(w, l, t) ==
    IF Fails(l) THEN Ret(w, [Issued(l) EXCEPT !.upath = "error"], "throw")
    ELSE Ret(w, [Issued(l) EXCEPT !.upath = "blocked"], "true")

\* Firestore answers the get; lines 193-198 call blockIP for the ip of the
\* document.
BlockUserGet(w, l, t) ==
    LET userDoc == UserDoc(w.users, l.uid)
        ip == (CHOOSE d \in userDoc : TRUE).ip
    IN  IF Fails(l) THEN Ret(w, [Issued(l) EXCEPT !.upath = "error"], "throw")
        ELSE IF userDoc # {} /\ ip # "-"
        THEN AfterBlockIP(BlockIPStart(w,
                 [Issued(l) EXCEPT !.ip = ip,
                                   !.reason = CascadeReason(l.uid, l.reason)], t))
        ELSE Ret(w, [Issued(l) EXCEPT !.upath = "blocked"], "true")

\* blockUser has returned.
AfterBlockUser(r) == IF r.k = "await" THEN r ELSE Return(r.w, r.l, r.v)

\* isUserBlocked has answered: its caller goes on.
AfterIsUserBlocked(r, t) ==
    IF r.k = "await" THEN r
    ELSE IF r.l.op = "blockUser"
    THEN AfterBlockUser(BlockUserChecked(r.w, r.l, t, r.v))
    ELSE Return(r.w, r.l, r.v)

\* unblockUser has returned or thrown: isUserBlocked (lines 101-106) answers
\* false in both cases.
AfterUnblockUser(r, t) ==
    IF r.k = "await" THEN r
    ELSE LET l1 == [r.l EXCEPT !.inUnblockUser = FALSE, !.inIsUser = FALSE,
                               !.udoc = {}]
         IN  IF r.l.inIsUser THEN AfterIsUserBlocked(Ret(r.w, l1, "false"), t)
             ELSE Return(r.w, l1, r.v)

\* unblockIP has returned or thrown, to unblockUser when it called it (l is
\* the call before the step): unblockUser returns true, or throws on.
AfterUnblockIP(r, l, t) ==
    IF r.k = "await" \/ ~l.inUnblockUser THEN r
    ELSE AfterUnblockUser(
             Ret(r.w, [r.l EXCEPT !.pc = l.pc, !.ret = "-",
                                  !.failAt = IF l.pc = "unb_done" THEN l.failAt
                                             ELSE Issued(l).failAt],
                 IF r.v = "throw" THEN "throw" ELSE "true"), t)

(***************************************************************************)
(* One step of a call: from its start, or from the await it is suspended  *)
(* at, to its next await or to its return.  t is Date.now() at the step.   *)
(***************************************************************************)
\* isIPBlocked has answered: its caller goes on.
AfterIsIPBlocked(r, t) ==
    IF r.l.inBlock THEN AfterBlockIP(BlockIPChecked(r.w, r.l, t, r.v))
    ELSE IF r.l.op = "analyze" THEN AnalyzeChecked(r.w, r.l, t, r.v)
    ELSE Return(r.w, r.l, r.v)

Begin(w, l, t, thr, win) ==
    CASE l.op = "isBlocked" ->
            LET r == IsIPBlockedStart(w, l, t)
            IN  IF r.k = "ret" THEN Return(r.w, r.l, r.v) ELSE r
      [] l.op = "block" -> AfterBlockIP(BlockIPStart(w, l, t))
      [] l.op = "unblock" -> UnblockIPStart(w, l)
      [] l.op = "cleanup" -> CleanupStart(w, l, t)
      [] l.op = "rate" -> CheckRateLimit(w, l, t, thr, win)
      [] l.op = "analyze" -> AnalyzeStart(w, l, t)
      [] l.op = "isUserBlocked" ->
            AfterIsUserBlocked(IsUserBlockedStart(w, l, t), t)
      [] l.op = "blockUser" ->
            AfterIsUserBlocked(IsUserBlockedStart(w, l, t), t)
      [] l.op = "unblockUser" -> UnblockUserStart(w, l)

Step(w, l, t, thr, win) ==
    CASE l.pc = "start" -> Begin(w, l, t, thr, win)
      [] l.pc = "isb_get" -> IsIPBlockedGet(w, l)
      [] l.pc = "isb_got" -> AfterIsIPBlocked(IsIPBlockedGot(w, l), t)
      [] l.pc = "add_put" -> BlockIPPut(w, l)
      [] l.pc = "add_done" -> AfterBlockIP(BlockIPDone(w, l))
      [] l.pc = "unb_get" -> AfterUnblockIP(UnblockIPGet(w, l), l, t)
      [] l.pc = "unb_put" -> UnblockIPPut(w, l, t)
      [] l.pc = "unb_done" -> AfterUnblockIP(UnblockIPDone(w, l), l, t)
      [] l.pc = "cl_ipget" -> CleanupIPGet(w, l)
      [] l.pc = "cl_ipput" -> CleanupIPPut(w, l, t)
      [] l.pc = "cl_uget" -> CleanupUserGet(w, l)
      [] l.pc = "cl_uput" -> CleanupUserPut(w, l)
      [] l.pc = "cl_mem" -> CleanupMem(w, l, t)
      [] l.pc = "aud_put" -> AuditPut(w, l)
      [] l.pc = "isu_get" -> IsUserBlockedGet(w, l)
      [] l.pc = "isu_got" -> AfterIsUserBlocked(IsUserBlockedGot(w, l, t), t)
      [] l.pc = "unu_get" -> AfterUnblockUser(UnblockUserGet(w, l), t)
      [] l.pc = "unu_put" -> UnblockUserPut(w, l)
      [] l.pc = "unu_done" -> AfterUnblockUser(UnblockUserDone(w, l), t)
      [] l.pc = "unu_query" -> AfterUnblockUser(UnblockUserQuery(w, l), t)
      [] l.pc = "bu_put" -> BlockUserPut(w, l)
      [] l.pc = "bu_done" -> AfterBlockUser(BlockUserDone(w, l))
      [] l.pc = "bu_get" -> AfterBlockUser(BlockUserGet(w, l, t))

\* A call run from its start to its return with no other call in between.
RECURSIVE Run(_, _, _, _, _)
Run(w, l, t, thr, win) ==
    IF l.pc = "done" THEN [w |-> w, l |-> l]
    ELSE LET r == Step(w, l, t, thr, win) IN Run(r.w, r.l, t, thr, win)

(***************************************************************************)
(* The admission middleware of server.js (160-180) and manualIPService.    *)
(* Both are synchronous: a request is one step.                            *)
(***************************************************************************)
\* checkRateLimit with >= for > at line 28, a window starting again 60
\* seconds after the last admitted request; C34 tells it from the code.
MwCheckRateLimitResetsEarly(r, ip, t) ==
    LET d == IF ip \in DOMAIN r THEN r[ip] ELSE [count |-> 0, lastRequest |-> 0]
    IN  IF t - d.lastRequest >= MwWindow
        THEN [r |-> Put(r, ip, [count |-> 1, lastRequest |-> t]), ok |-> TRUE]
        ELSE IF d.count < MwThreshold
        THEN [r |-> Put(r, ip, [count |-> d.count + 1, lastRequest |-> t]),
              ok |-> TRUE]
        ELSE [r |-> Put(r, ip, [count |-> d.count + 1,
                                lastRequest |-> d.lastRequest]),
              ok |-> FALSE]

\* manualIPService.checkRateLimit (server.js 23-40): the new rateLimits and
\* the answer.
MwCheckRateLimit(r, ip, t) ==
    LET d == IF ip \in DOMAIN r THEN r[ip] ELSE [count |-> 0, lastRequest |-> 0]
    IN  IF t - d.lastRequest > MwWindow
        THEN [r |-> Put(r, ip, [count |-> 1, lastRequest |-> t]), ok |-> TRUE]
        ELSE IF d.count < MwThreshold
        THEN [r |-> Put(r, ip, [count |-> d.count + 1, lastRequest |-> t]),
              ok |-> TRUE]
        ELSE [r |-> Put(r, ip, [count |-> d.count + 1,
                                lastRequest |-> d.lastRequest]),
              ok |-> FALSE]

\* app.use('/api', manualAuth, ...) (server.js 160-180) for a request that
\* manualAuth has let through; clean is manualIPService.analyzeTraffic's
\* answer.  The response is 429, 403 or "next".
Middleware(r, b, ip, clean, t) ==
    LET rl == MwCheckRateLimit(r, ip, t)
    IN  IF ~rl.ok THEN [r |-> rl.r, b |-> b, res |-> "429"]
        ELSE IF ~clean
        THEN [r |-> rl.r, b |-> Put(b, ip, t + MwBlockDuration), res |-> "403"]
        ELSE [r |-> rl.r, b |-> b, res |-> "next"]

(***************************************************************************)
(* The state machine.                                                      *)
(***************************************************************************)
\* What is kept of a call that has returned.
Entry(l) == [op |-> l.op, ip |-> l.ip, uid |-> l.uid, upath |-> l.upath,
             ret |-> l.ret, path |-> l.path,
             asked |-> l.asked, failed |-> l.failed, pre |-> l.pre,
             n0 |-> l.n0, expiresAt |-> l.expiresAt, reset |-> l.reset,
             suspicious |-> l.suspicious, cleaned |-> l.cleaned,
             batch |-> l.batch]

NoEntry == Entry(NoCall)

\* The script migrateUsers.js has not been started.
NoMigration ==
    [pc |-> "idle", docs |-> << >>, indexed |-> FALSE, idx |-> 0, batch |-> {},
     sealed |-> FALSE, suspended |-> 0, processed |-> 0, commits |-> << >>,
     late |-> {}]

InitService(thr, win) ==
    /\ now = StartTime
    /\ blocklist = << >>
    /\ users = [u \in Uids |-> [ip |-> "10.0.0.1", blocked |-> FALSE,
                                blockReason |-> "-", blockUntil |-> {}]]
    /\ activityLog = 0
    /\ unblocked = Empty
    /\ blockedIPs = Empty
    /\ rateLimits = Empty
    /\ suspiciousIPs = Empty
    /\ blockedUsers = Empty
    /\ threshold = thr
    /\ timeWindow = win
    /\ proc = [p \in Procs |-> NoCall]
    /\ last = NoEntry
    /\ mwRateLimits = Empty
    /\ mwAdmitted = Empty
    /\ alerts = << >>
    /\ alertsFile = << >>
    /\ idsAlerts = Empty
    /\ mwBlockedIPs = Empty

InitWith(thr, win) == mig = NoMigration /\ InitService(thr, win)

Init == InitWith(Min(Thresholds), Min(Windows))

Commit(w) ==
    /\ blocklist' = w.blocklist
    /\ users' = w.users
    /\ activityLog' = w.activityLog
    /\ unblocked' = w.unblocked
    /\ blockedIPs' = w.blockedIPs
    /\ rateLimits' = w.rateLimits
    /\ suspiciousIPs' = w.suspiciousIPs
    /\ blockedUsers' = w.blockedUsers

\* The counters and collections stay within the bounds of the model.
Within(w) ==
    /\ Len(w.blocklist) <= MaxEntries
    /\ \A ip \in DOMAIN w.rateLimits : w.rateLimits[ip].count <= MaxCount
    /\ \A ip \in DOMAIN w.suspiciousIPs : w.suspiciousIPs[ip] <= MaxHits

\* A call made at the current time while no other call is in flight, run
\* to its return: the world and the locals it ends with.
RunCall(op, ip, reason, dur, suspicious, failAt) ==
    Run(World, NewCall(World, now, op, ip, reason, dur, suspicious, failAt),
        now, threshold, timeWindow)

Returned(r) ==
    /\ Within(r.w)
    /\ Commit(r.w)
    /\ last' = Entry(r.l)
    /\ UNCHANGED <<now, cfgVars, migVars, idsVars, proc, mwVars>>

BlockIP ==
    \E ip \in IPs, dur \in Durations, f \in 0..2 :
        LET r == RunCall("block", ip, "manual", dur, FALSE, f) IN Returned(r)

UnblockIP ==
    \E ip \in IPs, f \in 0..2 :
        LET r == RunCall("unblock", ip, "-", 0, FALSE, f) IN Returned(r)

IsIPBlocked ==
    \E ip \in IPs, f \in 0..1 :
        LET r == RunCall("isBlocked", ip, "-", 0, FALSE, f) IN Returned(r)

CleanupExpiredBlocks ==
    \E f \in 0..4 :
        LET r == RunCall("cleanup", "-", "-", 0, FALSE, f) IN Returned(r)

CheckRateLimitCall ==
    \E ip \in RateIPs, f \in 0..2 :
        LET r == RunCall("rate", ip, "-", 0, FALSE, f) IN Returned(r)

AnalyzeTraffic ==
    \E ip \in RateIPs, suspicious \in BOOLEAN, f \in 0..3 :
        LET r == RunCall("analyze", ip, "-", 0, suspicious, f) IN Returned(r)

Tick ==
    /\ now < StartTime + MaxTime
    /\ now' = now + 1
    /\ UNCHANGED <<storeVars, memVars, cfgVars, migVars, idsVars, proc,
                   histVars, mwVars>>

\* POST /block (ipsRoutes.js 19-36): the status it answers for what blockIP
\* returned or threw.
PostBlock(ret) ==
    IF ret = "throw" THEN 500 ELSE IF ret = "true" THEN 200 ELSE 400

\* POST /block-user (ipsRoutes.js 49-78): the status it answers for what
\* blockUser returned or threw.
PostBlockUser(ret) ==
    IF ret = "throw" THEN 500 ELSE IF ret = "true" THEN 200 ELSE 400

\* DELETE /unblock (ipsRoutes.js 90-102): the status it answers for what
\* unblockIP returned or threw.
DeleteUnblock(ret) ==
    IF ret = "throw" THEN 500 ELSE IF ret = "true" THEN 200 ELSE 400

\* The block registry, one call at a time.
Next == BlockIP \/ UnblockIP \/ IsIPBlocked \/ CleanupExpiredBlocks \/ Tick

Spec == Init /\ [][Next]_vars

(***************************************************************************)
(* Concurrent calls of blockIP: each process runs one call at a time, and  *)
(* the steps of the calls in flight interleave at their awaits.            *)
(***************************************************************************)
Stepped(p, r) ==
    /\ Within(r.w)
    /\ Commit(r.w)
    /\ proc' = [proc EXCEPT ![p] = IF r.l.pc = "done" THEN NoCall ELSE r.l]
    /\ UNCHANGED <<now, cfgVars, migVars, idsVars, histVars, mwVars>>

ConcBlockIP ==
    \E p \in Procs, ip \in RateIPs, dur \in Durations, f \in 0..2 :
        /\ proc[p].op = "none"
        /\ LET r == Step(World, NewCall(World, now, "block", ip, "manual", dur,
                                        FALSE, f),
                         now, threshold, timeWindow)
           IN  Stepped(p, r)

ConcStep ==
    \E p \in Procs :
        /\ proc[p].op # "none"
        /\ LET r == Step(World, proc[p], now, threshold, timeWindow)
           IN  Stepped(p, r)

NextConc == ConcBlockIP \/ ConcStep \/ Tick

SpecConc == Init /\ [][NextConc]_vars

(***************************************************************************)
(* The limiter and the scorer of IPSService called concurrently for the    *)
(* clients, one request of a client at a time: the calls in flight         *)
(* interleave at their awaits.                                             *)
(***************************************************************************)
\* The process that serves the requests of a client.
ServerOf(ip) == IF IsLoopback(ip) THEN 1 ELSE 2

IndepCall ==
    \E ip \in RateIPs, op \in {"rate", "analyze"}, suspicious \in BOOLEAN :
      LET p == ServerOf(ip) IN
        /\ proc[p].op = "none"
        /\ suspicious = (op = "analyze")
        /\ suspicious => SuspiciousCount(suspiciousIPs, ip) <= MaxIndepHits
        /\ LET r == Step(World, NewCall(World, now, op, ip, "-", 0, suspicious, 0),
                         now, threshold, timeWindow)
           IN  Stepped(p, r)

NextIndep == IndepCall \/ ConcStep \/ Tick

SpecIndep == Init /\ [][NextIndep]_vars

(***************************************************************************)
(* The sweep and request handling together: process 1 runs calls of        *)
(* blockUser, process 2 runs calls of cleanupExpiredBlocks (the interval   *)
(* timer); their steps interleave at the awaits, and the clock may advance *)
(* between steps.                                                          *)
(***************************************************************************)
Handler == 1
Sweeper == 2

SweepBlockUser ==
    \E uid \in Uids, dur \in Durations :
        /\ proc[Handler].op = "none"
        /\ LET r == Step(World,
                         NewUserCall(World, now, "blockUser", uid, "manual",
                                     dur, 0),
                         now, threshold, timeWindow)
           IN  Stepped(Handler, r)

SweepCleanup ==
    /\ proc[Sweeper].op = "none"
    /\ LET r == Step(World,
                     NewCall(World, now, "cleanup", "-", "-", 0, FALSE, 0),
                     now, threshold, timeWindow)
       IN  Stepped(Sweeper, r)

NextSweep == SweepBlockUser \/ SweepCleanup \/ ConcStep \/ Tick

SpecSweep == Init /\ [][NextSweep]_vars

(***************************************************************************)
(* Deactivation raced: calls of unblockIP and of cleanupExpiredBlocks      *)
(* (POST /cleanup, the timer) interleave at their awaits; blocks are made  *)
(* between their steps.                                                    *)
(***************************************************************************)
RaceBlockIP ==
    \E ip \in Remote :
        LET r == RunCall("block", ip, "manual", Min(Durations), FALSE, 0)
        IN  Returned(r)

RaceUnblockIP ==
    \E ip \in Remote :
        /\ proc[Handler].op = "none"
        /\ LET r == Step(World,
                         NewCall(World, now, "unblock", ip, "-", 0, FALSE, 0),
                         now, threshold, timeWindow)
           IN  Stepped(Handler, r)

RaceCleanup ==
    \E p \in Procs :
        /\ proc[p].op = "none"
        /\ LET r == Step(World,
                         NewCall(World, now, "cleanup", "-", "-", 0, FALSE, 0),
                         now, threshold, timeWindow)
           IN  Stepped(p, r)

NextRace == RaceBlockIP \/ RaceUnblockIP \/ RaceCleanup \/ ConcStep \/ Tick

SpecRace == Init /\ [][NextRace]_vars

(***************************************************************************)
(* The server left to itself: blocks come in through POST /block, the      *)
(* clock advances, and the job of server.js 212-222 runs on its schedule;  *)
(* no client calls POST /cleanup or DELETE /unblock.                       *)
(***************************************************************************)
\* POST /block (ipsRoutes.js 11-37): blockIP, and on success the ipStore of
\* server.js is written too.
RoutePostBlock ==
    \E ip \in IPs, dur \in Durations :
        LET r == RunCall("block", ip, "manual", dur, FALSE, 0)
        IN  /\ Within(r.w)
            /\ Commit(r.w)
            /\ last' = Entry(r.l)
            /\ mwBlockedIPs' = IF PostBlock(r.l.ret) = 200
                               THEN Put(mwBlockedIPs, ip, now + dur)
                               ELSE mwBlockedIPs
            /\ UNCHANGED <<now, cfgVars, migVars, idsVars, proc, mwRateLimits,
                           mwAdmitted>>

\* manualIPService.cleanupExpiredBlocks (server.js 55-67): the ipStore of
\* server.js loses the ips whose expiry is before now.
MwCleanupExpiredBlocks(b, t) == [ip \in {x \in DOMAIN b : ~(b[x] < t)} |-> b[ip]]

\* The scheduled job (server.js 212-222): manualIPService.cleanupExpiredBlocks
\* and the sweep of old rate limits.
HourlyJob ==
    /\ mwBlockedIPs' = MwCleanupExpiredBlocks(mwBlockedIPs, now)
    /\ mwRateLimits' =
         [ip \in {x \in DOMAIN mwRateLimits :
                    ~(now - mwRateLimits[x].lastRequest > MwRateKeep)}
            |-> mwRateLimits[ip]]
    /\ last' = [NoEntry EXCEPT !.op = "job"]
    /\ UNCHANGED <<now, storeVars, memVars, cfgVars, migVars, idsVars, proc,
                   mwAdmitted>>

NextSched == RoutePostBlock \/ HourlyJob \/ Tick

\* The job is scheduled again and again, and time passes.
SpecSched ==
    /\ Init
    /\ [][NextSched]_vars
    /\ WF_vars(HourlyJob)
    /\ WF_vars(Tick)

(***************************************************************************)
(* The rate limiter and the scorer of IPSService, one call at a time.      *)
(***************************************************************************)
InitRate == \E thr \in Thresholds, win \in Windows : InitWith(thr, win)

NextRate == CheckRateLimitCall \/ Tick

SpecRate == InitRate /\ [][NextRate]_vars

NextScore == AnalyzeTraffic \/ Tick

SpecScore == Init /\ [][NextScore]_vars

(***************************************************************************)
(* The block registry with its user methods, one call at a time.           *)
(***************************************************************************)
\* Which store operation of a call fails: the first, the second, ...
FailPoints == 1..6

RunUserCall(op, uid, reason, dur, failAt) ==
    Run(World, NewUserCall(World, now, op, uid, reason, dur, failAt),
        now, threshold, timeWindow)

BlockUser ==
    \E uid \in Uids, dur \in Durations :
        LET r == RunUserCall("blockUser", uid, "manual", dur, 0) IN Returned(r)

UnblockUser ==
    \E uid \in Uids :
        LET r == RunUserCall("unblockUser", uid, "-", 0, 0) IN Returned(r)

IsUserBlocked ==
    \E uid \in Uids \cup Strangers, f \in 0..1 :
        LET r == RunUserCall("isUserBlocked", uid, "-", 0, f) IN Returned(r)

\* blockIP, unblockIP for an ip some user has, and cleanupExpiredBlocks, the
\* store answering.
BlockUserIP ==
    \E uid \in Uids :
        LET r == RunCall("block", users[uid].ip, "manual", Min(Durations),
                         FALSE, 0)
        IN  Returned(r)

UnblockUserIP ==
    \E uid \in Uids :
        LET r == RunCall("unblock", users[uid].ip, "-", 0, FALSE, 0)
        IN  Returned(r)

Cleanup ==
    LET r == RunCall("cleanup", "-", "-", 0, FALSE, 0) IN Returned(r)

IsUserIPBlocked ==
    \E uid \in Uids :
        LET r == RunCall("isBlocked", users[uid].ip, "-", 0, FALSE, 0)
        IN  Returned(r)

NextUser ==
    \/ BlockUser \/ UnblockUser \/ IsUserBlocked
    \/ BlockUserIP \/ UnblockUserIP \/ IsUserIPBlocked
    \/ Cleanup \/ Tick

SpecUser == Init /\ [][NextUser]_vars

\* POST /block-user with a uid that users_ips has no document of, among
\* the calls for the users it has.
BlockStranger ==
    \E uid \in Strangers, dur \in Durations, f \in 0..2 :
        LET r == RunUserCall("blockUser", uid, "manual", dur, f) IN Returned(r)

NextStranger == BlockStranger \/ BlockUser \/ UnblockUser \/ IsUserBlocked \/ Tick

SpecStranger == Init /\ [][NextStranger]_vars

(***************************************************************************)
(* The registry across restarts of the server: Firestore keeps its         *)
(* collections, the ipStore of the new process is empty.                   *)
(***************************************************************************)
Restart ==
    /\ blockedIPs' = Empty
    /\ rateLimits' = Empty
    /\ suspiciousIPs' = Empty
    /\ blockedUsers' = Empty
    /\ mwRateLimits' = Empty
    /\ mwBlockedIPs' = Empty
    /\ last' = [NoEntry EXCEPT !.op = "restart"]
    /\ UNCHANGED <<now, storeVars, cfgVars, migVars, idsVars, proc, mwAdmitted>>

\* blockIP, also with its isIPBlocked read failing, which lets a second
\* block of the ip in.
ColdBlockIP ==
    \E ip \in Remote, dur \in Durations, f \in 0..1 :
        LET r == RunCall("block", ip, "manual", dur, FALSE, f) IN Returned(r)

NextCold ==
    \/ ColdBlockIP \/ IsUserIPBlocked
    \/ BlockUser \/ IsUserBlocked
    \/ Restart \/ Tick

SpecCold == Init /\ [][NextCold]_vars

(***************************************************************************)
(* A check raced with an unblock: a call of isIPBlocked and a call of      *)
(* unblockIP interleave at their awaits; blocks and restarts happen while  *)
(* no call is in flight.                                                   *)
(***************************************************************************)
Idle == \A p \in Procs : proc[p].op = "none"

StaleBlockIP ==
    /\ Idle
    /\ \E ip \in Remote :
         LET r == RunCall("block", ip, "manual", Min(Durations), FALSE, 0)
         IN  Returned(r)

StaleRestart == Idle /\ Restart

StaleIsIPBlocked ==
    \E ip \in Remote :
        /\ proc[Handler].op = "none"
        /\ LET r == Step(World,
                         NewCall(World, now, "isBlocked", ip, "-", 0, FALSE, 0),
                         now, threshold, timeWindow)
           IN  Stepped(Handler, r)

StaleUnblockIP ==
    \E ip \in Remote :
        /\ proc[Sweeper].op = "none"
        /\ LET r == Step(World,
                         NewCall(World, now, "unblock", ip, "-", 0, FALSE, 0),
                         now, threshold, timeWindow)
           IN  Stepped(Sweeper, r)

NextStale ==
    \/ StaleBlockIP \/ StaleRestart \/ StaleIsIPBlocked \/ StaleUnblockIP
    \/ ConcStep \/ Tick

SpecStale == Init /\ [][NextStale]_vars

(***************************************************************************)
(* The /api admission middleware of server.js beside the block registry.   *)
(***************************************************************************)
MwRequest ==
    \E ip \in RateIPs, clean \in BOOLEAN :
        LET m == Middleware(mwRateLimits, mwBlockedIPs, ip, clean, now)
        IN  /\ m.r[ip].count <= MaxMwCount
            /\ mwRateLimits' = m.r
            /\ mwBlockedIPs' = m.b
            /\ mwAdmitted' = mwAdmitted
            /\ last' = [NoEntry EXCEPT !.op = "request", !.ip = ip, !.ret = m.res]
            /\ UNCHANGED <<now, storeVars, memVars, cfgVars, migVars, idsVars,
                           proc>>

NextMw == MwRequest \/ Tick

SpecMw == Init /\ [][NextMw]_vars

\* The limiter of the middleware: the calls of checkRateLimit(req.ip) it
\* makes (server.js 164), with the hourly job of server.js, which deletes
\* the rate-limit entries not used for a day.
\* One more call of checkRateLimit(ip) has returned true at the current time.
Admit(a, ip) ==
    LET h == IF ip \in DOMAIN a THEN a[ip] ELSE [k \in 1..(MwWindow + 1) |-> 0]
    IN  Put(a, ip, [h EXCEPT ![1] = @ + 1])

LimitCheckRateLimit ==
    \E ip \in RateIPs :
        LET c == MwCheckRateLimit(mwRateLimits, ip, now)
        IN  /\ c.r[ip].count <= MaxMwCount
            /\ mwRateLimits' = c.r
            /\ mwAdmitted' = IF c.ok THEN Admit(mwAdmitted, ip) ELSE mwAdmitted
            /\ last' = [NoEntry EXCEPT !.op = "limit", !.ip = ip,
                                       !.ret = IF c.ok THEN "true" ELSE "false"]
            /\ UNCHANGED <<now, storeVars, memVars, cfgVars, migVars, idsVars,
                           proc, mwBlockedIPs>>

\* Time passes: what was admitted now was admitted a tick ago.
LimitTick ==
    /\ now < StartTime + MaxTime
    /\ now' = now + 1
    /\ mwAdmitted' = [ip \in DOMAIN mwAdmitted |->
                        <<0>> \o SubSeq(mwAdmitted[ip], 1, MwWindow)]
    /\ UNCHANGED <<storeVars, memVars, cfgVars, migVars, idsVars, proc,
                   histVars, mwRateLimits,
                   mwBlockedIPs>>

NextLimit == LimitCheckRateLimit \/ HourlyJob \/ LimitTick

SpecLimit == Init /\ [][NextLimit]_vars

(***************************************************************************)
(* IDSService (unnamed/part_005 325-456): the alerts it keeps, the alerts  *)
(* file and the collection ids_alerts.  An alert is its position in        *)
(* this.alerts and its severity; the notification mail is left out.        *)
(***************************************************************************)
\* calculateConnectionSeverity (388-398); heavy: more than 1000000 bytes
\* were received or sent.
CalculateConnectionSeverity(heavy) == IF heavy THEN 3 + 2 ELSE 3

\* db.collection('ids_alerts').add(...) of an alert: one more document of it.
AddAlertDoc(c, id) == Put(c, id, IF id \in DOMAIN c THEN c[id] + 1 ELSE 1)

\* processAlerts (423-456), the store answering: the loop of lines 428-445
\* adds a document for every element of this.alerts; ids_alerts after it.
RECURSIVE ProcessAlerts(_, _)
ProcessAlerts(al, c) ==
    IF al = << >> THEN c
    ELSE ProcessAlerts(Tail(al), AddAlertDoc(c, Head(al).id))

\* createConnectionAlert (361-386): the alert is pushed, the file is
\* written from this.alerts (saveAlerts, 400-406) and processAlert
\* (409-421) adds its document, or fails and logs.
IdsCreateConnectionAlert ==
    \E heavy \in BOOLEAN, ok \in BOOLEAN :
        LET alert == [id |-> Len(alerts) + 1,
                      severity |-> CalculateConnectionSeverity(heavy)]
        IN  /\ Len(alerts) < MaxAlerts
            /\ alerts' = Append(alerts, alert)
            /\ alertsFile' = alerts'
            /\ idsAlerts' = IF ok THEN AddAlertDoc(idsAlerts, alert.id)
                            ELSE idsAlerts
            /\ last' = [NoEntry EXCEPT !.op = "createAlert",
                                       !.ret = IF ok THEN "true" ELSE "false"]
            /\ UNCHANGED <<now, storeVars, memVars, cfgVars, migVars, proc,
                           mwVars>>

\* The job of scheduleAlertProcessing (350-359), every minute, and GET
\* /process_alerts: processAlerts runs; line 448 writes '[]' to the file,
\* and no line of 423-456 assigns to this.alerts or removes an element.
IdsProcessAlerts ==
    LET c == ProcessAlerts(alerts, idsAlerts)
    IN  /\ \A id \in DOMAIN c : c[id] <= MaxStored
        /\ idsAlerts' = c
        /\ alertsFile' = << >>
        /\ alerts' = alerts
        /\ last' = [NoEntry EXCEPT !.op = "processAlerts", !.ret = "true"]
        /\ UNCHANGED <<now, storeVars, memVars, cfgVars, migVars, proc, mwVars>>

NextIds == IdsCreateConnectionAlert \/ IdsProcessAlerts \/ Tick

SpecIds == Init /\ [][NextIds]_vars

(***************************************************************************)
(* migrateUsers.js, migrateExistingUsers (3-39).  The fields of mig:       *)
(*   pc        "idle", "loop" (inside usersSnapshot.forEach), "final"      *)
(*             (line 33 is next), "done", or "failed" (the function has    *)
(*             rejected)                                                   *)
(*   docs      the documents of the snapshot, in order: whether            *)
(*             data.blocked is undefined                                   *)
(*   indexed   forEach passes the position of the document as the second   *)
(*             argument of the callback (as Array.prototype.forEach does;  *)
(*             forEach of a query snapshot is not code of this repository) *)
(*   idx       the position of the next document, from 0                   *)
(*   batch     the documents whose update the WriteBatch that the variable *)
(*             batch refers to holds                                       *)
(*   sealed    commit() has been called on that WriteBatch                 *)
(*   suspended the callbacks suspended at the await of line 26             *)
(*   processed the counter of line 9                                       *)
(*   commits   the batches commit() was called on, in order                *)
(*   late      the documents whose batch.update was called on a WriteBatch *)
(*             that was committed already                                  *)
(***************************************************************************)
\* Line 5: the snapshot has arrived; forEach starts.
MigStart ==
    /\ mig.pc = "idle"
    /\ mig' = [mig EXCEPT !.pc = IF mig.docs = << >> THEN "final" ELSE "loop"]
    /\ UNCHANGED <<now, storeVars, memVars, cfgVars, idsVars, proc, histVars,
                   mwVars>>

\* Lines 12-30: the callback of one document, up to its end or to the
\* await of line 26.  forEach does not wait for the callback: the next
\* document follows at once.  batch.update on a committed WriteBatch
\* throws, which ends the callback; commit() on a committed WriteBatch
\* sends it again or throws (resend).
MigVisit ==
    \E resend \in BOOLEAN :
        LET i == mig.idx
            needs == mig.docs[i + 1]
            throws == needs /\ mig.sealed
            added == needs /\ ~mig.sealed
            batch == IF added THEN mig.batch \cup {i} ELSE mig.batch
            commitNow == ~throws /\ mig.indexed /\ i > 0 /\ i % BatchSize = 0
            sent == commitNow /\ (~mig.sealed \/ resend)
        IN  /\ mig.pc = "loop"
            /\ (commitNow /\ mig.sealed) \/ ~resend
            /\ mig' = [mig EXCEPT
                         !.idx = i + 1,
                         !.pc = IF i + 1 = Len(mig.docs) THEN "final" ELSE "loop",
                         !.batch = batch,
                         !.processed = IF added THEN @ + 1 ELSE @,
                         !.late = IF throws THEN @ \cup {i} ELSE @,
                         !.commits = IF sent THEN Append(@, batch) ELSE @,
                         !.sealed = @ \/ commitNow,
                         !.suspended = IF sent THEN @ + 1 ELSE @]
            /\ UNCHANGED <<now, storeVars, memVars, cfgVars, idsVars, proc,
                           histVars, mwVars>>

\* Lines 32-38, right after forEach has returned: the variable batch still
\* refers to the WriteBatch of line 10.
MigFinal ==
    \E resend \in BOOLEAN :
        /\ mig.pc = "final"
        /\ (mig.processed > 0 /\ mig.sealed) \/ ~resend
        /\ mig' = IF mig.processed = 0 THEN [mig EXCEPT !.pc = "done"]
                  ELSE IF mig.sealed /\ ~resend THEN [mig EXCEPT !.pc = "failed"]
                  ELSE [mig EXCEPT !.pc = "done", !.sealed = TRUE,
                                   !.commits = Append(@, mig.batch)]
        /\ UNCHANGED <<now, storeVars, memVars, cfgVars, idsVars, proc,
                       histVars,
                       mwVars>>

\* Lines 27-28: a commit of line 26 has resolved and its callback goes on,
\* which cannot happen before the function has reached its own await.
MigResume ==
    /\ mig.pc \in {"done", "failed"}
    /\ mig.suspended > 0
    /\ mig' = [mig EXCEPT !.suspended = @ - 1, !.batch = {}, !.sealed = FALSE]
    /\ UNCHANGED <<now, storeVars, memVars, cfgVars, idsVars, proc, histVars,
                   mwVars>>

\* The script is run against a collection of up to MaxDocs documents.
InitMig ==
    /\ InitService(Min(Thresholds), Min(Windows))
    /\ \E n \in 0..MaxDocs, indexed \in BOOLEAN :
         \E docs \in [1..n -> BOOLEAN] :
            mig = [NoMigration EXCEPT !.docs = docs, !.indexed = indexed]

NextMig == MigStart \/ MigVisit \/ MigFinal \/ MigResume

SpecMig == InitMig /\ [][NextMig]_vars

\* The number of committed batches that hold the update of document d.
MigUpdated(d) == Cardinality({k \in DOMAIN mig.commits : d \in mig.commits[k]})

(***************************************************************************)
(* Properties.                                                             *)
(***************************************************************************)
\* isIPBlocked(ip) called now, with the store answering: its answer.
IsBlockedNow(w, ip) ==
    Run(w, NewCall(w, now, "isBlocked", ip, "-", 0, FALSE, 0),
        now, threshold, timeWindow).l.ret

\* blockIP(ip, "manual", dur) called now, with the store answering.
BlockNow(w, ip, dur) ==
    Run(w, NewCall(w, now, "block", ip, "manual", dur, FALSE, 0),
        now, threshold, timeWindow)

\* C1: every ip has at most one document with active = true in
\* ips_blocklist, in every state the registry reaches one call at a time,
\* the clock advancing between the calls.
C1_AtMostOneActive ==
    \A ip \in IPs : Cardinality(QueryActive(blocklist, ip)) <= 1

\* C2: under concurrent blockIP calls the store never holds two documents
\* of one ip that are active at the same time (active = true and not yet
\* expired).
C2_NoTwoActiveAtOnce ==
    \A ip \in IPs : Cardinality(QueryBlocked(blocklist, ip, now)) <= 1

\* C3: after blockIP(X) has returned true, and until the block expires,
\* isIPBlocked(X) answers true when the store does not fail: from the
\* ipStore as it is, and from ips_blocklist when the ipStore holds nothing.
C3_BlockedAfterBlock ==
    (last.op = "block" /\ last.ret = "true" /\ now < last.expiresAt)
    => /\ IsBlockedNow(World, last.ip) = "true"
       /\ IsBlockedNow([World EXCEPT !.blockedIPs = Empty], last.ip) = "true"

C3_Witness ==
    /\ last.op = "block" /\ last.ret = "true" /\ now < last.expiresAt
    /\ StoreIsIPBlocked(blockedIPs, last.ip, now)
    /\ IsBlockedNow(World, last.ip) = "true"

\* C4: after unblockIP(X) has returned for an X that is not loopback (X
\* blocked before the call, or not), isIPBlocked(X) answers false, and a
\* blockIP(X) that follows (the store not failing) returns true and adds a
\* document for X with active = true; so it does when isIPBlocked(X) was
\* called in between.
C4_UnblockThenBlock ==
    (last.op = "unblock" /\ last.ret = "true" /\ ~IsLoopback(last.ip))
    => /\ IsBlockedNow(World, last.ip) = "false"
       /\ \A dur \in Durations :
            LET w1 == Run(World, NewCall(World, now, "isBlocked", last.ip, "-",
                                         0, FALSE, 0),
                          now, threshold, timeWindow).w
                r == BlockNow(w1, last.ip, dur)
                d == BlockNow(World, last.ip, dur)
                n == Len(blocklist) + 1
            IN  \A b \in {r, d} :
                    /\ b.l.ret = "true"
                    /\ b.l.path = "blocked"
                    /\ Len(b.w.blocklist) = n
                    /\ b.w.blocklist[n] = [ip |-> last.ip, reason |-> "manual",
                                           expiresAt |-> now + dur,
                                           active |-> TRUE]
                    /\ SubSeq(b.w.blocklist, 1, n - 1) = blocklist

C4_Witness ==
    /\ last.op = "unblock" /\ last.ret = "true" /\ last.pre
    /\ EntriesOf(blocklist, last.ip) # {}
    /\ QueryActive(blocklist, last.ip) = {}

\* C5: no loopback address is ever blocked: ips_blocklist holds no document
\* for it, and neither the ipStore of the service nor the ipStore of
\* server.js holds a block entry for it.
C5_LoopbackNeverBlocked ==
    \A ip \in Loopback :
        /\ EntriesOf(blocklist, ip) = {}
        /\ ip \notin DOMAIN blockedIPs
        /\ ip \notin DOMAIN mwBlockedIPs

\* C6: what blockIP returns for a loopback address differs from what it
\* returns for an address that is already blocked.
C6_RefusedIsDistinct ==
    (last.op = "block" /\ last.path = "already")
    => \A ip \in Loopback, dur \in Durations :
           BlockNow(World, ip, dur).l.ret # last.ret

\* C7: blockIP(X) on an X that is not blocked and not loopback returns true
\* when the store does not fail; until that block expires a second
\* blockIP(X) returns false for "already blocked" and changes nothing, so
\* that ips_blocklist holds one document more for X than before the first
\* call: exactly one when it held none.
C7_BlockTwice ==
    /\ (last.op = "block" /\ ~IsLoopback(last.ip) /\ ~last.pre /\ ~last.failed)
       => (last.ret = "true" /\ last.path = "blocked")
    /\ (last.op = "block" /\ last.ret = "true" /\ now < last.expiresAt)
       => /\ Cardinality(EntriesOf(blocklist, last.ip)) = last.n0 + 1
          /\ \A dur \in Durations :
                LET r == BlockNow(World, last.ip, dur)
                IN  /\ r.l.ret = "false"
                    /\ r.l.path = "already"
                    /\ r.w = World

C7_Witness ==
    /\ last.op = "block" /\ last.ret = "true" /\ now < last.expiresAt
    /\ last.n0 = 0 /\ ~last.pre
    /\ Cardinality(EntriesOf(blocklist, last.ip)) = 1
    /\ BlockNow(World, last.ip, 1).l.path = "already"

\* A step of the service made by a call op(ip) that met no store failure.
\* (A call leaves the clock alone; checkRateLimit, and analyzeTraffic of a
\* suspicious request from an ip that is not blocked, always change a
\* counter.)
CallStep(op, ip) ==
    /\ now' = now
    /\ last'.op = op
    /\ last'.ip = ip
    /\ ~last'.failed

\* The number of requests of ip counted in its rate window.
Counted(ip) == IF ip \in DOMAIN rateLimits THEN rateLimits[ip].count ELSE 0

\* The rate window of ip is open at the current time.
InWindow(ip) ==
    ip \in DOMAIN rateLimits => now - rateLimits[ip].firstRequest <= timeWindow

\* The document blockIP(ip, reason) adds at the current time.
Added(ip, reason) ==
    [ip |-> ip, reason |-> reason, expiresAt |-> now + BlockDuration,
     active |-> TRUE]

\* C8: the limiter of the /api middleware admits the first T requests of a
\* window, and the request it denies after them (the one counted T + 1, and
\* those after it) gets the client blocked, when it is not loopback: in
\* the ipStore of server.js, in the ipStore of the service or in
\* ips_blocklist.
C8_DeniedIsBlocked ==
    (last.op = "request" /\ last.ip \in DOMAIN mwRateLimits)
    => LET k == mwRateLimits[last.ip].count
       IN  /\ k <= MwThreshold => last.ret # "429"
           /\ k > MwThreshold
              => /\ last.ret = "429"
                 /\ ~IsLoopback(last.ip)
                    => \/ last.ip \in DOMAIN mwBlockedIPs
                       \/ last.ip \in DOMAIN blockedIPs
                       \/ EntriesOf(blocklist, last.ip) # {}

\* C8, for IPSService.checkRateLimit, which no route calls: the k-th
\* checkRateLimit(ip) call of a window is counted as k; while
\* k <= threshold it returns true and blocks nothing; when k > threshold
\* (first for k = threshold + 1) it returns false and calls
\* blockIP(ip, 'Rate limit exceeded'), which blocks an ip that is neither
\* blocked nor loopback.
C8_RateLimit ==
    [][\A ip \in RateIPs :
        (CallStep("rate", ip) /\ InWindow(ip))
        => LET k == Counted(ip) + 1
           IN  /\ rateLimits'[ip].count = k
               /\ k <= threshold
                  => /\ last'.ret = "true"
                     /\ last'.asked = "-"
                     /\ UNCHANGED <<blocklist, blockedIPs>>
               /\ k > threshold
                  => /\ last'.ret = "false"
                     /\ last'.asked = "Rate limit exceeded"
                     /\ (~IsLoopback(ip) /\ ~BlockedAt(World, ip, now))
                        => /\ last'.path = "blocked"
                           /\ blocklist' = Append(blocklist,
                                  Added(ip, "Rate limit exceeded"))
    ]_vars

C8_Witness ==
    /\ last.op = "rate" /\ ~last.failed
    /\ rateLimits[last.ip].count = threshold + 1
    /\ last.ret = "false"
    /\ last.asked = "Rate limit exceeded"
    /\ last.path = "blocked"
    /\ \E i \in 1..Len(blocklist) :
          /\ blocklist[i].ip = last.ip
          /\ blocklist[i].reason = "Rate limit exceeded"

\* C9: a checkRateLimit(ip) call made when now - firstRequest > timeWindow
\* leaves the window {count: 1, firstRequest: now}, returns true and blocks
\* nothing (the threshold being at least 1).
C9_WindowReset ==
    [][\A ip \in RateIPs :
        (CallStep("rate", ip) /\ ~InWindow(ip))
        => /\ rateLimits'[ip] = [count |-> 1, firstRequest |-> now]
           /\ last'.ret = "true"
           /\ last'.asked = "-"
           /\ UNCHANGED <<blocklist, blockedIPs>>
    ]_vars

C9_Witness ==
    /\ last.op = "rate" /\ last.reset /\ ~last.failed
    /\ rateLimits[last.ip] = [count |-> 1, firstRequest |-> now]
    /\ last.ret = "true"

\* The suspicious requests of ip counted so far.
Hits(ip) == IF ip \in DOMAIN suspiciousIPs THEN suspiciousIPs[ip] ELSE 0

\* C10: the k-th suspicious request analyzeTraffic sees from an ip that is
\* not blocked is counted as k and returns false; while
\* k < suspiciousThreshold nothing is blocked; when k reaches
\* suspiciousThreshold, blockIP(ip, 'Multiple suspicious activities
\* detected') is called, which blocks an ip that is not loopback.
C10_Scorer ==
    [][\A ip \in RateIPs :
        (CallStep("analyze", ip) /\ last'.suspicious
            /\ ~BlockedAt(World, ip, now))
        => LET k == Hits(ip) + 1
           IN  /\ suspiciousIPs'[ip] = k
               /\ last'.ret = "false"
               /\ k < SuspiciousThreshold
                  => /\ last'.asked = "-"
                     /\ UNCHANGED <<blocklist, blockedIPs>>
               /\ k >= SuspiciousThreshold
                  => /\ last'.asked = "Multiple suspicious activities detected"
                     /\ ~IsLoopback(ip)
                        => /\ last'.path = "blocked"
                           /\ blocklist' = Append(blocklist,
                                  Added(ip, "Multiple suspicious activities detected"))
    ]_vars

C10_Witness ==
    /\ last.op = "analyze" /\ last.suspicious /\ ~last.failed /\ ~last.pre
    /\ suspiciousIPs[last.ip] = SuspiciousThreshold
    /\ last.ret = "false"
    /\ last.asked = "Multiple suspicious activities detected"
    /\ last.path = "blocked"
    /\ EntriesOf(blocklist, last.ip) # {}

\* C11: once the scorer has blocked an ip and that block has ended, one
\* more suspicious request from the ip does not get it blocked again: the
\* hit count starts again from 0 at the block.
C11_ScoreRestartsAtBlock ==
    (/\ last.op = "analyze"
     /\ last.path = "blocked"
     /\ ~BlockedAt(World, last.ip, now))
    => LET r == RunCall("analyze", last.ip, "-", 0, TRUE, 0)
       IN  /\ r.l.asked = "-"
           /\ r.w.blocklist = blocklist

\* A step made by a call op(uid) of a user method that met no store failure.
UserCallStep(op, uid) ==
    /\ now' = now
    /\ last'.op = op
    /\ last'.uid = uid
    /\ ~last'.failed

\* C12: blockUser(u, reason) on a user that is not blocked, whose document
\* has the ip a (not loopback), returns true and leaves the user blocked;
\* when a is not blocked it adds to ips_blocklist an active document for a
\* whose reason names u (`User u blocked: reason`); when a is blocked
\* already, ips_blocklist is left as it was.
C12_CascadeOnBlock ==
    [][\A uid \in Uids :
        (UserCallStep("blockUser", uid) /\ ~UserBlockedAt(World, uid, now))
        => LET a == users[uid].ip
           IN  /\ last'.ret = "true"
               /\ users'[uid].blocked
               /\ UserBlockedAt(World', uid, now)
               /\ IF BlockedAt(World, a, now)
                  THEN blocklist' = blocklist
                  ELSE \E dur \in Durations :
                         blocklist' = Append(blocklist,
                            [ip |-> a,
                             reason |-> CascadeReason(uid, users'[uid].blockReason),
                             expiresAt |-> now + dur, active |-> TRUE])
    ]_vars

C12_Witness ==
    /\ last.op = "blockUser" /\ last.ret = "true" /\ ~last.pre
    /\ last.path = "blocked"
    /\ Len(blocklist) > 0
    /\ blocklist[Len(blocklist)].ip = users[last.uid].ip
    /\ blocklist[Len(blocklist)].reason = "User u1 blocked: manual"
    /\ blocklist[Len(blocklist)].active
    /\ users[last.uid].blocked

\* C13: when a user u is blocked and ips_blocklist holds the active document
\* that the block of u added for the ip of u, then after unblockUser(u) has
\* returned that document is inactive and blockedIPs holds nothing for the
\* ip.
C13_CascadeOnUnblock ==
    [][\A uid \in Uids : \A i \in 1..Len(blocklist) :
        (/\ UserCallStep("unblockUser", uid)
         /\ last'.ret = "true"
         /\ users[uid].blocked
         /\ blocklist[i].active
         /\ blocklist[i].ip = users[uid].ip
         /\ blocklist[i].reason = CascadeReason(uid, users[uid].blockReason))
        => /\ ~blocklist'[i].active
           /\ users[uid].ip \notin DOMAIN blockedIPs'
    ]_vars

\* C14: blockIP(ip) and unblockIP(ip) leave every users_ips document
\* (blocked, blockReason, blockUntil) and every entry of blockedUsers as they
\* were, also for a user whose document has that ip.
C14_IPCallsLeaveUsers ==
    [][\A ip \in IPs :
        (CallStep("block", ip) \/ CallStep("unblock", ip))
        => /\ users' = users
           /\ blockedUsers' = blockedUsers
    ]_vars

C14_Witness ==
    /\ last.op = "unblock" /\ last.ret = "true"
    /\ \E uid \in Uids :
         /\ users[uid].ip = last.ip
         /\ users[uid].blocked
         /\ uid \in DOMAIN blockedUsers

\* C15: when cleanupExpiredBlocks() called now returns without an error,
\* every ips_blocklist document that was active with expiresAt <= now is
\* inactive, every user that was blocked with blockUntil <= now has blocked,
\* blockReason and blockUntil cleared, and neither blockedIPs nor
\* blockedUsers holds an entry with an expiry <= now.
C15_CleanupPost ==
    LET r == RunCall("cleanup", "-", "-", 0, FALSE, 0)
    IN  r.l.ret # "throw"
        => /\ \A i \in DOMAIN blocklist :
                (blocklist[i].active /\ blocklist[i].expiresAt <= now)
                => ~r.w.blocklist[i].active
           /\ \A u \in DOMAIN users :
                (users[u].blocked /\ \E e \in users[u].blockUntil : e <= now)
                => /\ ~r.w.users[u].blocked
                   /\ r.w.users[u].blockReason = "-"
                   /\ r.w.users[u].blockUntil = {}
           /\ \A ip \in DOMAIN r.w.blockedIPs : r.w.blockedIPs[ip] > now
           /\ \A u \in DOMAIN r.w.blockedUsers : r.w.blockedUsers[u] > now

C15_Witness ==
    /\ last.op = "cleanup" /\ last.ret = "true" /\ last.cleaned >= 4
    /\ \E i \in DOMAIN blocklist :
         ~blocklist[i].active /\ blocklist[i].expiresAt <= now
    /\ \E u \in Uids : ~users[u].blocked
    /\ blockedIPs = Empty /\ blockedUsers = Empty

\* A step made by the call of cleanupExpiredBlocks in flight.
SweepStep ==
    /\ proc[Sweeper].op = "cleanup"
    /\ proc'[Sweeper] # proc[Sweeper]

\* C16: a step of cleanupExpiredBlocks, interleaved with calls of blockUser,
\* leaves alone every block whose expiry is after now: an active
\* ips_blocklist document with expiresAt > now stays active, and a user
\* blocked with blockUntil > now stays blocked until then.
C16_SweepKeepsFreshBlocks ==
    [][SweepStep
       => /\ \A i \in DOMAIN blocklist :
               (blocklist[i].active /\ blocklist[i].expiresAt > now)
               => blocklist'[i].active
          /\ \A u \in DOMAIN users :
               (users[u].blocked /\ \E e \in users[u].blockUntil : e > now)
               => /\ users'[u].blocked
                  /\ users'[u].blockUntil = users[u].blockUntil
    ]_vars

\* C17: when a Firestore operation of isIPBlocked(ip) or of
\* isUserBlocked(uid) fails (the read after the ipStore did not answer, or
\* an operation of the unblockUser that isUserBlocked calls), the call
\* returns false and throws nothing.
C17_FailOpen ==
    /\ \A ip \in IPs, f \in FailPoints :
         LET r == RunCall("isBlocked", ip, "-", 0, FALSE, f)
         IN  r.l.failed => r.l.ret = "false"
    /\ \A uid \in Uids \cup Strangers, f \in FailPoints :
         LET r == RunUserCall("isUserBlocked", uid, "-", 0, f)
         IN  r.l.failed => r.l.ret = "false"
    /\ (last.op \in {"isBlocked", "isUserBlocked"} /\ last.failed)
       => last.ret = "false"

C17_Witness ==
    /\ last.op = "isUserBlocked" /\ last.failed /\ last.ret = "false"
    /\ last.uid \in Uids
    /\ users[last.uid].blocked

\* C18: when the Firestore write of a block fails (the add of blockIP, the
\* second store operation of a call that found the ip not blocked; the
\* update of blockUser for a user that is not blocked), the call throws,
\* POST /block answers 500, and the ipStore holds what it held before.
C18_FailedBlockThrows ==
    /\ \A ip \in IPs, dur \in Durations :
         LET r == RunCall("block", ip, "manual", dur, FALSE, 2)
         IN  r.l.failed
             => /\ r.l.ret = "throw"
                /\ PostBlock(r.l.ret) = 500
                /\ r.w.blockedIPs = blockedIPs
                /\ r.w.blocklist = blocklist
    /\ \A uid \in Uids, dur \in Durations :
         LET r == RunUserCall("blockUser", uid, "manual", dur, 2)
         IN  (r.l.failed /\ ~users[uid].blocked)
             => /\ r.l.ret = "throw"
                /\ r.w.blockedUsers = blockedUsers
                /\ r.w.users = users
    /\ (last.op = "block" /\ last.path = "error")
       => /\ last.ret = "throw"
          /\ ~StoreIsIPBlocked(blockedIPs, last.ip, now)

C18_Witness ==
    /\ last.op = "block" /\ last.failed /\ last.ret = "throw"
    /\ last.ip \notin DOMAIN blockedIPs
    /\ \A i \in DOMAIN blocklist : blocklist[i].ip # last.ip

\* C19: a call of isIPBlocked or of isUserBlocked, in whatever state it is
\* made (a block whose expiry has passed included), changes no document of
\* ips_blocklist and no document of users_ips.
C19_IsBlockedReadOnly ==
    [][(/\ now' = now
        /\ last'.op \in {"isBlocked", "isUserBlocked"})
       => /\ blocklist' = blocklist
          /\ users' = users
    ]_vars

\* C20: when every active ips_blocklist document of an ip has its
\* expiresAt at or before now, isIPBlocked(ip) returns false, although no
\* cleanup has deactivated the documents and blockedIPs still holds the
\* ip; likewise isUserBlocked(uid) returns false for a user whose
\* blockUntil is at or before now.
C20_ExpiryWithoutSweep ==
    /\ \A ip \in IPs :
         (/\ \E i \in DOMAIN blocklist :
               blocklist[i].ip = ip /\ blocklist[i].active
          /\ \A i \in DOMAIN blocklist :
               (blocklist[i].ip = ip /\ blocklist[i].active)
               => blocklist[i].expiresAt <= now)
         => RunCall("isBlocked", ip, "-", 0, FALSE, 0).l.ret = "false"
    /\ \A uid \in Uids :
         (/\ users[uid].blocked
          /\ \E e \in users[uid].blockUntil : e <= now)
         => RunUserCall("isUserBlocked", uid, "-", 0, 0).l.ret = "false"

C20_Witness ==
    /\ last.op = "isBlocked" /\ last.ret = "false"
    /\ last.ip \in DOMAIN blockedIPs
    /\ blockedIPs[last.ip] = now
    /\ \E i \in DOMAIN blocklist :
         /\ blocklist[i].ip = last.ip
         /\ blocklist[i].active
         /\ blocklist[i].expiresAt = now

\* C21: unblockIP(ip) for an ip that has no active ips_blocklist document
\* returns false (DELETE /unblock answers 400, "not blocked") and leaves
\* ips_blocklist and blockedIPs as they were.
C21_UnblockNotBlocked ==
    \A ip \in IPs :
        (\A i \in DOMAIN blocklist : ~(blocklist[i].ip = ip /\ blocklist[i].active))
        => LET r == RunCall("unblock", ip, "-", 0, FALSE, 0)
           IN  /\ r.l.ret = "false"
               /\ DeleteUnblock(r.l.ret) = 400
               /\ r.w.blocklist = blocklist
               /\ r.w.blockedIPs = blockedIPs

\* C22: in every step, every document of ips_blocklist stays in its place
\* with the ip and the expiresAt it was added with, and a document that is
\* inactive stays inactive.
C22_EntriesOnlyDeactivate ==
    [][\A i \in DOMAIN blocklist :
         /\ i \in DOMAIN blocklist'
         /\ blocklist'[i].ip = blocklist[i].ip
         /\ blocklist'[i].expiresAt = blocklist[i].expiresAt
         /\ blocklist'[i].active => blocklist[i].active
    ]_vars

C22_Witness ==
    \E i, j \in DOMAIN blocklist :
        /\ i < j
        /\ blocklist[i].ip = blocklist[j].ip
        /\ ~blocklist[i].active
        /\ blocklist[j].active
        /\ blocklist[j].expiresAt # blocklist[i].expiresAt

\* C23: once the /api middleware has recorded an ip as blocked
\* (ipStore.blockedIPs of server.js), every request from that ip that
\* reaches the middleware before the recorded expiry is denied: it does not
\* get to next().
C23_BlockedIsDenied ==
    [][\A ip \in RateIPs :
        (/\ ~IsLoopback(ip)
         /\ ip \in DOMAIN mwBlockedIPs
         /\ mwBlockedIPs[ip] > now
         /\ now' = now
         /\ last'.op = "request"
         /\ last'.ip = ip
         /\ mwRateLimits' # mwRateLimits)
        => last'.ret # "next"
    ]_vars

\* C24: with the scheduled job running again and again and no client
\* calling the cleanup endpoint, every ips_blocklist document that is
\* active with expiresAt at or before now is inactive at some later time.
C24_SweepDeactivates ==
    \A i \in 1..MaxEntries :
        (/\ i \in DOMAIN blocklist
         /\ blocklist[i].active
         /\ blocklist[i].expiresAt <= now)
        ~> (i \in DOMAIN blocklist /\ ~blocklist[i].active)

\* C25: cleanupExpiredBlocks() called twice in a row at the same time, with
\* nothing in between: the second call returns 0 and leaves ips_blocklist,
\* users_ips and the ipStore as the first call left them.
C25_CleanupIdempotent ==
    LET r1 == RunCall("cleanup", "-", "-", 0, FALSE, 0)
        r2 == Run(r1.w, NewCall(r1.w, now, "cleanup", "-", "-", 0, FALSE, 0),
                  now, threshold, timeWindow)
    IN  r1.l.ret # "throw"
        => /\ r2.l.ret # "throw"
           /\ r2.l.cleaned = 0
           /\ r2.w = r1.w

C25_Witness ==
    /\ last.op = "cleanup" /\ last.ret = "true" /\ last.cleaned = 0
    /\ \E i \in DOMAIN blocklist :
         ~blocklist[i].active /\ blocklist[i].expiresAt <= now
    /\ \A i \in DOMAIN blocklist : ~blocklist[i].active
    /\ blockedIPs = Empty /\ blockedUsers = Empty

\* C26: when cleanupExpiredBlocks() finds expired active documents and the
\* commit of their batch fails (the second store operation of the call),
\* the rest of the run is still done: the users whose block has expired
\* are cleared and the ipStore loses its expired entries.
C26_CleanupGoesOn ==
    LET r == RunCall("cleanup", "-", "-", 0, FALSE, 2)
    IN  (/\ \E i \in DOMAIN blocklist :
              blocklist[i].active /\ blocklist[i].expiresAt <= now
         /\ r.l.failed)
        => /\ \A u \in DOMAIN users :
                (users[u].blocked /\ \E e \in users[u].blockUntil : e <= now)
                => ~r.w.users[u].blocked
           /\ \A ip \in DOMAIN r.w.blockedIPs : r.w.blockedIPs[ip] > now
           /\ \A u \in DOMAIN r.w.blockedUsers : r.w.blockedUsers[u] > now

\* C27: when unblockIP and cleanupExpiredBlocks, or two runs of
\* cleanupExpiredBlocks, interleave on the same active document, the
\* document gets the update {active: false, unblocked: <server time>} from
\* one of them only: its field unblocked is written at most once.
C27_DeactivatedOnce ==
    \A i \in DOMAIN unblocked : Len(unblocked[i]) <= 1

\* C28: the number cleanupExpiredBlocks() returns is the number of expired
\* blocks the run deactivated: the ips_blocklist documents that were active
\* with expiresAt <= now plus the users that were blocked with
\* blockUntil <= now, each counted once.
C28_CleanupCount ==
    LET r == RunCall("cleanup", "-", "-", 0, FALSE, 0)
        docs == {i \in DOMAIN blocklist :
                   blocklist[i].active /\ blocklist[i].expiresAt <= now}
        accounts == {u \in DOMAIN users :
                       users[u].blocked /\ \E e \in users[u].blockUntil : e <= now}
    IN  r.l.ret # "throw"
        => r.l.cleaned = Cardinality(docs) + Cardinality(accounts)

\* C29: when ips_blocklist holds an active document for an ip with
\* expiresAt after now, isIPBlocked(ip) with no store failure returns true,
\* whether blockedIPs holds the ip, holds it with a passed expiry, or does
\* not hold it; likewise isUserBlocked(uid) for a user blocked until after
\* now, whatever blockedUsers holds.
C29_BlockedIsSeen ==
    /\ \A ip \in IPs :
         (\E i \in DOMAIN blocklist :
             /\ blocklist[i].ip = ip
             /\ blocklist[i].active
             /\ blocklist[i].expiresAt > now)
         => RunCall("isBlocked", ip, "-", 0, FALSE, 0).l.ret = "true"
    /\ \A uid \in Uids :
         (users[uid].blocked /\ \E e \in users[uid].blockUntil : e > now)
         => RunUserCall("isUserBlocked", uid, "-", 0, 0).l.ret = "true"

C29_Witness ==
    /\ last.op = "isBlocked" /\ last.ret = "true" /\ last.path = "store"
    /\ ~last.failed
    /\ \E i \in DOMAIN blocklist :
         /\ blocklist[i].ip = last.ip
         /\ blocklist[i].active
         /\ blocklist[i].expiresAt > now

\* C30: once a call of isIPBlocked(ip) and a call of unblockIP(ip) that ran
\* at the same time have both returned, blockedIPs holds an unexpired entry
\* for the ip only if ips_blocklist holds an active document for it, and a
\* later isIPBlocked(ip) answers false when there is no such document.
C30_NoStaleCacheEntry ==
    Idle
    => \A ip \in Remote :
         (\A i \in DOMAIN blocklist : ~(blocklist[i].ip = ip /\ blocklist[i].active))
         => /\ ~StoreIsIPBlocked(blockedIPs, ip, now)
            /\ RunCall("isBlocked", ip, "-", 0, FALSE, 0).l.ret = "false"

\* C31: unblockIP(ip) that meets no store failure returns true, leaves every
\* ips_blocklist document of the ip inactive (two active ones included),
\* changes nothing else in ips_blocklist, and leaves the ipStore without an
\* entry for the ip and with its other entries as they were.
C31_UnblockDeactivatesAll ==
    \A ip \in IPs :
        LET r == RunCall("unblock", ip, "-", 0, FALSE, 0)
        IN  /\ r.l.ret = "true"
            /\ Len(r.w.blocklist) = Len(blocklist)
            /\ \A i \in DOMAIN blocklist :
                  IF blocklist[i].ip = ip
                  THEN r.w.blocklist[i] = [blocklist[i] EXCEPT !.active = FALSE]
                  ELSE r.w.blocklist[i] = blocklist[i]
            /\ ip \notin DOMAIN r.w.blockedIPs
            /\ \A x \in DOMAIN blockedIPs \ {ip} :
                  x \in DOMAIN r.w.blockedIPs /\ r.w.blockedIPs[x] = blockedIPs[x]

\* unblockIP has returned true for an ip after a batch of two updates: the
\* ip has two documents, both stamped now and both inactive.
C31_Witness ==
    /\ last.op = "unblock" /\ last.ret = "true" /\ last.batch = 2
    /\ \E i, j \in DOMAIN blocklist :
         /\ i < j
         /\ blocklist[i].ip = last.ip /\ blocklist[j].ip = last.ip
         /\ ~blocklist[i].active /\ ~blocklist[j].active
         /\ i \in DOMAIN unblocked /\ j \in DOMAIN unblocked
         /\ unblocked[i] = <<now>> /\ unblocked[j] = <<now>>
    /\ last.ip \notin DOMAIN blockedIPs

\* C32: analyzeTraffic(ip, request) for an ip that has an unexpired block on
\* record, the store not failing, returns false, leaves the ip's count of
\* suspicious requests, the audit collection and ips_blocklist as they
\* were, and does not call blockIP, for a suspicious request and for a
\* clean one.
C32_BlockedNotScored ==
    \A ip \in RateIPs, suspicious \in BOOLEAN :
        (QueryBlocked(blocklist, ip, now) # {}
            \/ (ip \in DOMAIN blockedIPs /\ blockedIPs[ip] > now))
        => LET r == RunCall("analyze", ip, "-", 0, suspicious, 0)
           IN  /\ r.l.ret = "false"
               /\ r.w.suspiciousIPs = suspiciousIPs
               /\ r.w.activityLog = activityLog
               /\ r.w.blocklist = blocklist
               /\ r.l.asked = "-"

\* analyzeTraffic has returned false for a suspicious request of an ip the
\* scorer had blocked before: the count stands where the block left it.
C32_Witness ==
    /\ last.op = "analyze" /\ last.suspicious /\ last.pre /\ ~last.failed
    /\ last.ret = "false" /\ last.asked = "-"
    /\ QueryBlocked(blocklist, last.ip, now) # {}
    /\ last.ip \in DOMAIN suspiciousIPs
    /\ suspiciousIPs[last.ip] = SuspiciousThreshold
    /\ activityLog = SuspiciousThreshold - 1

\* C33: analyzeTraffic(ip, request) for an ip with no unexpired block on
\* record, the store not failing: a clean request returns true and leaves
\* the ip's count and the audit collection as they were; a suspicious
\* request counted below suspiciousThreshold adds exactly one audit
\* document and returns false; a suspicious request counted at
\* suspiciousThreshold or above adds no audit document.
C33_ScoreAndAudit ==
    \A ip \in RateIPs :
        (QueryBlocked(blocklist, ip, now) = {}
            /\ ~(ip \in DOMAIN blockedIPs /\ blockedIPs[ip] > now))
        => LET c == RunCall("analyze", ip, "-", 0, FALSE, 0)
               s == RunCall("analyze", ip, "-", 0, TRUE, 0)
               k == Hits(ip) + 1
           IN  /\ c.l.ret = "true"
               /\ c.w.suspiciousIPs = suspiciousIPs
               /\ c.w.activityLog = activityLog
               /\ k < SuspiciousThreshold
                  => /\ s.w.activityLog = activityLog + 1
                     /\ s.l.ret = "false"
               /\ k >= SuspiciousThreshold
                  => s.w.activityLog = activityLog

\* analyzeTraffic has returned false for a suspicious request of an ip that
\* was not blocked, counted below the threshold, with audit documents on
\* record.
C33_Witness ==
    /\ last.op = "analyze" /\ last.suspicious /\ ~last.pre /\ ~last.failed
    /\ last.ret = "false" /\ last.asked = "-"
    /\ last.ip \in DOMAIN suspiciousIPs
    /\ suspiciousIPs[last.ip] < SuspiciousThreshold
    /\ activityLog >= suspiciousIPs[last.ip]
    /\ EntriesOf(blocklist, last.ip) = {}

\* C34: for every ip and every interval of the length of the limiter's
\* window (60 seconds), manualIPService.checkRateLimit(ip) has returned
\* true at most 10 times at the times of the interval.
C34_AtMostTenPerWindow ==
    \A ip \in DOMAIN mwAdmitted :
        LET total[k \in 0..(MwWindow + 1)] ==
                IF k = 0 THEN 0 ELSE mwAdmitted[ip][k] + total[k - 1]
        IN  total[MwWindow + 1] <= MwThreshold

\* The limiter has refused a request of an ip it had admitted 10 requests
\* of in the interval that ends now, some of them a tick ago.
C34_Witness ==
    /\ last.op = "limit" /\ last.ret = "false"
    /\ last.ip \in DOMAIN mwAdmitted
    /\ mwAdmitted[last.ip][1] > 0 /\ mwAdmitted[last.ip][2] > 0
    /\ mwAdmitted[last.ip][1] + mwAdmitted[last.ip][2] = MwThreshold

\* C35: whatever calls are in flight, a step of a call of checkRateLimit or
\* analyzeTraffic for one ip, the start of a new call or the continuation
\* of a suspended one, leaves the rate window and the count of suspicious
\* requests of every other ip as they were.
C35_PerSubject ==
    LET Same(w, b) ==
            /\ (b \in DOMAIN w.rateLimits) = (b \in DOMAIN rateLimits)
            /\ b \in DOMAIN rateLimits => w.rateLimits[b] = rateLimits[b]
            /\ (b \in DOMAIN w.suspiciousIPs) = (b \in DOMAIN suspiciousIPs)
            /\ b \in DOMAIN suspiciousIPs => w.suspiciousIPs[b] = suspiciousIPs[b]
        Frame(l) ==
            LET r == Step(World, l, now, threshold, timeWindow)
            IN  \A b \in RateIPs \ {l.ip} : Same(r.w, b)
    IN  /\ \A q \in Procs :
              proc[q].op \in {"rate", "analyze"} => Frame(proc[q])
        /\ \A ip \in RateIPs, suspicious \in BOOLEAN :
              /\ Frame(NewCall(World, now, "rate", ip, "-", 0, FALSE, 0))
              /\ Frame(NewCall(World, now, "analyze", ip, "-", 0, suspicious, 0))

\* Calls for two different ips are suspended at the same time, one of them
\* a call of analyzeTraffic that has counted its request, and both ips have
\* a rate window and a count on record.
C35_Witness ==
    /\ proc[1].op = "analyze" /\ proc[1].pc = "aud_put"
    /\ proc[2].op \in {"rate", "analyze"} /\ proc[2].pc # "done"
    /\ proc[1].ip # proc[2].ip
    /\ \A ip \in RateIPs : ip \in DOMAIN rateLimits /\ ip \in DOMAIN suspiciousIPs
    /\ suspiciousIPs[proc[1].ip] # suspiciousIPs[proc[2].ip]

\* C36: when blockUser(uid) for a user that is not blocked ends in an
\* error, whichever of its store operations failed, the user is not left
\* blocked: the users_ips document has blocked = false and the ipStore has
\* no entry for the user.
C36_BlockUserAllOrNothing ==
    \A uid \in Uids, dur \in Durations, f \in FailPoints :
        (~users[uid].blocked /\ uid \notin DOMAIN blockedUsers)
        => LET r == RunUserCall("blockUser", uid, "manual", dur, f)
           IN  r.l.ret = "throw"
               => /\ ~r.w.users[uid].blocked
                  /\ uid \notin DOMAIN r.w.blockedUsers

\* C37: blockUser(uid) for a uid that users_ips has no document of, with or
\* without a store failure, does not return true (POST /block-user does
\* not answer 200), and leaves users_ips, ips_blocklist and the ipStore as
\* they were; isUserBlocked(uid) answers false after it.
C37_BlockStranger ==
    \A uid \in Strangers, dur \in Durations, f \in {0} \cup FailPoints :
        LET r == RunUserCall("blockUser", uid, "manual", dur, f)
            c == Run(r.w, NewUserCall(r.w, now, "isUserBlocked", uid, "-", 0, 0),
                     now, threshold, timeWindow)
        IN  /\ r.l.ret = "throw"
            /\ PostBlockUser(r.l.ret) = 500
            /\ r.w.users = users
            /\ r.w.blocklist = blocklist
            /\ r.w.blockedUsers = blockedUsers
            /\ r.w.blockedIPs = blockedIPs
            /\ c.l.ret = "false"

\* blockUser has thrown for a uid without a document, no store operation
\* having failed for another reason, while a user with a document is
\* blocked.
C37_Witness ==
    /\ last.op = "blockUser" /\ last.uid \in Strangers
    /\ last.ret = "throw" /\ last.upath = "error" /\ ~last.failed
    /\ last.uid \notin DOMAIN users
    /\ last.uid \notin DOMAIN blockedUsers
    /\ \E u \in Uids : users[u].blocked

\* C38: when processAlerts() has completed, IDSService holds no pending
\* alert, and ids_alerts holds at most one document of every alert.
C38_AlertsStoredOnce ==
    /\ last.op = "processAlerts" => alerts = << >>
    /\ \A id \in DOMAIN idsAlerts : idsAlerts[id] <= 1

\* C39: in a run of migrateExistingUsers no batch that is committed holds
\* more than batchSize updates, no update is added to a batch that was
\* committed already, and when the run has ended every document that
\* lacked the field blocked has been updated exactly once.
C39_MigrationBatches ==
    /\ \A k \in DOMAIN mig.commits : Cardinality(mig.commits[k]) <= BatchSize
    /\ mig.late = {}
    /\ mig.pc = "done"
       => \A d \in 0..(Len(mig.docs) - 1) : mig.docs[d + 1] => MigUpdated(d) = 1

=========================================================================
